---- MODULE Spec2Model ----
(***************************************************************************)
(* A model of the padloc server (packages/core/src/server.ts): the request *)
(* pipeline BaseServer.handle -> _authenticate -> Server._process ->       *)
(* Controller.<method>, over the key/object storage, the in-memory         *)
(* pendingAuths map and the messenger.  Every handler is one atomic        *)
(* action; a handler is a function from (store, context, params) to        *)
(* (store, error code, result).                                            *)
(***************************************************************************)
EXTENDS Integers, Sequences, FiniteSets, TLC

\* ---------------------------------------------------------------- bounds
MaxAccounts == 2
MaxSessions == 2
MaxExchanges == 2
MaxTokens == 3
MaxTime == 2
MaxRevisions == 8

MaxDetached == 1

MaxOrgLinks == 2

MaxOrgs == 3

MaxAttachments == 3

MaxInflight == 2

\* ---------------------------------------------------------------- inputs
Emails == {"e1", "e2", "e3"}
Devices == {"d1"}
Verifiers == {"v1", "v2"}
ClientEphemerals == {"A1"}
Names == {"n1", "n2"}
Codes == {"c1"}

NoDevice == ""
NoToken == 0
NoId == 0
NoAuth == <<>>
NoKey == <<>>
NoExpiry == 0
NoResult == [kind |-> "none"]

\* A signature no session key produces.
BadSignature == <<"K", "forged">>

VARIABLES
    auths,          \* storage: Auth records, keyed by email
    accounts,       \* storage: Account records, keyed by account id
    sessions,       \* storage: Session records, keyed by session id
    evs,            \* storage: EmailVerification records, keyed by email
    vaults,         \* storage: Vault records, keyed by vault id
    orgs,           \* storage: Org records, keyed by org id
    attachments,    \* attachment storage: vault and size, keyed by attachment id
    pendingAuths,   \* the module-level map account id -> SRP context
    detached,       \* token checks started by initAuth and not awaited
    revoking,       \* session deletes started by recoverAccount and not awaited
    inflight,       \* handlers that have read and have not written yet
    outbox,         \* messages handed to the messenger
    uuids,          \* how many ids of each kind uuid() has produced
    now,            \* the clock read by new Date()
    res             \* the response to the last request

vars == <<auths, accounts, sessions, evs, vaults, orgs, attachments, pendingAuths,
          detached, revoking, inflight, outbox, uuids, now, res>>

\* The store a handler works on.
Store ==
    [auths |-> auths, accounts |-> accounts, sessions |-> sessions, evs |-> evs,
     vaults |-> vaults, orgs |-> orgs, attachments |-> attachments,
     pendingAuths |-> pendingAuths, detached |-> detached, revoking |-> revoking, outbox |-> outbox,
     uuids |-> uuids, now |-> now]

\* ---------------------------------------------------------------- storage
Has(map, id) == id \in DOMAIN map

Save(map, id, obj) == [k \in DOMAIN map \cup {id} |-> IF k = id THEN obj ELSE map[k]]

Delete(map, id) == [k \in DOMAIN map \ {id} |-> map[k]]

\* uuid(): a value never returned before, per kind of id.
uuid(S, kind) == S.uuids[kind] + 1

Took(S, kind) == [S EXCEPT !.uuids[kind] = @ + 1]

send(S, to, kind) == [S EXCEPT !.outbox = @ \cup {<<to, kind>>}]

Fail(S, code) == [S |-> S, code |-> code, out |-> NoResult]

Ok(S, out) == [S |-> S, code |-> "OK", out |-> out]

\* Array.prototype.some / findIndex over a sequence of records with an id.
IdIndex(seq, id) ==
    IF \E i \in 1..Len(seq) : seq[i].id = id
    THEN CHOOSE i \in 1..Len(seq) : seq[i].id = id /\ \A j \in 1..(i - 1) : seq[j].id # id
    ELSE 0

Contains(seq, x) == \E i \in 1..Len(seq) : seq[i] = x

\* ---------------------------------------------------------------- SRP, Session
\* The server half of an SRP exchange: the verifier it was initialised with,
\* its own ephemeral secret, and the client's public value once setA ran.
srpInitialize(v, b) == [v |-> v, b |-> b, A |-> ""]

srpSetA(srp, A) == [srp EXCEPT !.A = A]

\* srp.M1: the proof a client holding the password behind srp.v computes.
srpM1(srp) == <<"M1", srp.v, srp.b, srp.A>>

\* srp.K: the session key both sides derive.
srpK(srp) == <<"K", srp.v, srp.b, srp.A>>

\* session.verify(req): the request is signed with the session's key.
sessionVerify(session, sig) == sig = session.key

\* session.info: the summary kept in account.sessions.
sessionInfo(id, session) ==
    [id |-> id, device |-> session.device, lastUsed |-> session.lastUsed]

\* ---------------------------------------------------------------- context
AnonymousContext(device) == [session |-> NoId, account |-> NoId, device |-> device]

\* Mutation of sessionCheck: the signature is verified before the expiry.
sessionCheck_signatureFirst(session, sig, time) ==
    IF ~sessionVerify(session, sig) THEN "INVALID_REQUEST"
    ELSE IF session.expires # NoExpiry /\ session.expires < time THEN "SESSION_EXPIRED"
    ELSE "OK"

\* _authenticate, the checks on a session that was found: expired sessions
\* are rejected, then the request's signature is verified.
sessionCheck(session, sig, time) ==
    IF session.expires # NoExpiry /\ session.expires < time THEN "SESSION_EXPIRED"
    ELSE IF ~sessionVerify(session, sig) THEN "INVALID_REQUEST"
    ELSE "OK"

\* BaseServer._authenticate: the session named by req.auth is looked up,
\* checked for expiry and for the request's signature, then refreshed and
\* written back into the account's session list.
authenticate(S, req) ==
    IF req.auth = NoAuth
    THEN [S |-> S, code |-> "OK", ctx |-> AnonymousContext(req.device)]
    ELSE LET sid == req.auth[1]
             sig == req.auth[2]
             none == AnonymousContext(req.device)
         IN  IF ~Has(S.sessions, sid)
             THEN [S |-> S, code |-> "INVALID_SESSION", ctx |-> none]
             ELSE LET session == S.sessions[sid] IN
                  IF sessionCheck(session, sig, S.now) # "OK"
                  THEN [S |-> S, code |-> sessionCheck(session, sig, S.now), ctx |-> none]
                  ELSE IF ~Has(S.accounts, session.account)
                  THEN [S |-> S, code |-> "NOT_FOUND", ctx |-> none]
                  ELSE LET account == S.accounts[session.account]
                           session1 == [session EXCEPT !.lastUsed = S.now,
                                                       !.device = req.device]
                           i == IdIndex(account.sessions, sid)
                           list == IF i # 0
                                   THEN [account.sessions EXCEPT
                                            ![i] = sessionInfo(sid, session1)]
                                   ELSE Append(account.sessions,
                                               sessionInfo(sid, session1))
                       IN  [S |-> [S EXCEPT
                                     !.sessions = Save(@, sid, session1),
                                     !.accounts = Save(@, session.account,
                                         [account EXCEPT !.sessions = list])],
                            code |-> "OK",
                            ctx |-> [session |-> sid, account |-> session.account,
                                     device |-> req.device]]

\* Controller._requireAuth
requireAuth(ctx) == ctx.session # NoId /\ ctx.account # NoId

\* ---------------------------------------------------------------- email verification
\* new EmailVerification(email); v.init(): a fresh token and a code.
newEmailVerification(S, code) == [code |-> code, token |-> uuid(S, "token"), tries |-> 0]

\* Controller.requestEmailVerification
requestEmailVerification(S, ctx, p, rnd) ==
    LET v == newEmailVerification(S, rnd.code)
        S1 == [Took(S, "token") EXCEPT !.evs = Save(@, p.email, v)]
    IN  Ok(send(S1, p.email, "EmailVerification"), NoResult)

\* A token check that leaves the record it has matched.
checkEmailVerificationToken_keeping(S, email, token) ==
    IF ~Has(S.evs, email) THEN Fail(S, "EMAIL_VERIFICATION_FAILED")
    ELSE IF S.evs[email].token # token THEN Fail(S, "EMAIL_VERIFICATION_FAILED")
    ELSE Ok(S, NoResult)

\* Controller._checkEmailVerificationToken
checkEmailVerificationToken(S, email, token) ==
    IF ~Has(S.evs, email) THEN Fail(S, "EMAIL_VERIFICATION_FAILED")
    ELSE IF S.evs[email].token # token THEN Fail(S, "EMAIL_VERIFICATION_FAILED")
    ELSE Ok([S EXCEPT !.evs = Delete(@, email)], NoResult)

\* String.prototype.toLowerCase, over the codes clients send.
toLowerCase(code) == IF code = "C1" THEN "c1" ELSE code

\* The number of wrong codes a verification record lives through.
MaxTries == 5

\* A code check that uses the record up when the code is right.
checkEmailVerificationCode_deleting(S, email, code) ==
    IF ~Has(S.evs, email) THEN Fail(S, "EMAIL_VERIFICATION_REQUIRED")
    ELSE LET ev == S.evs[email] IN
         IF ev.code # toLowerCase(code)
         THEN IF ev.tries + 1 > MaxTries
              THEN Fail([S EXCEPT !.evs = Delete(@, email)],
                        "EMAIL_VERIFICATION_TRIES_EXCEEDED")
              ELSE Fail([S EXCEPT !.evs = Save(@, email, [ev EXCEPT !.tries = @ + 1])],
                        "EMAIL_VERIFICATION_FAILED")
         ELSE Ok([S EXCEPT !.evs = Delete(@, email)], [kind |-> "Token", token |-> ev.token])

\* Controller._checkEmailVerificationCode
checkEmailVerificationCode(S, email, code) ==
    IF ~Has(S.evs, email) THEN Fail(S, "EMAIL_VERIFICATION_REQUIRED")
    ELSE LET ev == S.evs[email] IN
         IF ev.code # toLowerCase(code)
         THEN IF ev.tries + 1 > MaxTries
              THEN Fail([S EXCEPT !.evs = Delete(@, email)],
                        "EMAIL_VERIFICATION_TRIES_EXCEEDED")
              ELSE Fail([S EXCEPT !.evs = Save(@, email, [ev EXCEPT !.tries = @ + 1])],
                        "EMAIL_VERIFICATION_FAILED")
         ELSE Ok(S, [kind |-> "Token", token |-> ev.token])

\* Controller.completeEmailVerification
completeEmailVerification(S, ctx, p, rnd) == checkEmailVerificationCode(S, p.email, p.code)

\* ---------------------------------------------------------------- login
deviceTrusted(S, ctx, email) ==
    /\ Has(S.auths, email)
    /\ ctx.device # NoDevice
    /\ Contains(S.auths[email].trustedDevices, ctx.device)

\* Mutation of setPending: an exchange already pending is kept.
setPending_keepsFirst(S, account, srp) ==
    IF Has(S.pendingAuths, account) THEN S
    ELSE [S EXCEPT !.pendingAuths = Save(@, account, srp)]

\* pendingAuths.set(account, srp): the new exchange replaces any earlier one.
setPending(S, account, srp) == [S EXCEPT !.pendingAuths = Save(@, account, srp)]

\* Mutation of deletePending: the exchange stays pending.
deletePending_skipped(S, account) == S

\* pendingAuths.delete(account)
deletePending(S, account) == [S EXCEPT !.pendingAuths = Delete(@, account)]

\* Mutation of deleteKey: the key stays on the returned session.
deleteKey_kept(session) == session

\* delete session.key: what is returned carries no key.
deleteKey(session) == [session EXCEPT !.key = NoKey]

\* Controller.initAuth.  The token check of line 104 is started and not
\* awaited: its promise is dropped, so its rejection never reaches initAuth
\* and its delete of the record lands whenever the storage gets to it.
initAuth(S, ctx, p, rnd) ==
    LET trusted == deviceTrusted(S, ctx, p.email)
        S1 == IF ~trusted /\ p.verify # NoToken
              THEN [S EXCEPT !.detached = @ \cup {<<p.email, p.verify>>}]
              ELSE S
    IN  IF ~trusted /\ p.verify = NoToken
        THEN Fail(S, "EMAIL_VERIFICATION_REQUIRED")
        ELSE IF ~Has(S.auths, p.email)
        THEN Fail(S1, "NOT_FOUND")
        ELSE LET auth == S.auths[p.email]
                 srp == srpInitialize(auth.verifier, uuid(S1, "exchange"))
                 S2 == setPending(Took(S1, "exchange"), auth.account, srp)
             IN  Ok(S2, [kind |-> "InitAuthResponse", account |-> auth.account,
                         B |-> srp.b])

\* An updateAuth that lets any signed-in account replace any Auth record.
ownsEmail_any(account, auth) == TRUE

\* "Auth information can only be updated by the corresponding account"
ownsEmail(account, auth) == account.email = auth.email

\* Controller.updateAuth
updateAuth(S, ctx, auth, rnd) ==
    IF ~requireAuth(ctx) THEN Fail(S, "INVALID_SESSION")
    ELSE IF ~ownsEmail(S.accounts[ctx.account], auth)
    THEN Fail(S, "INSUFFICIENT_PERMISSIONS")
    ELSE Ok([S EXCEPT !.auths = Save(@, auth.email,
                [account |-> auth.account, verifier |-> auth.verifier,
                 trustedDevices |-> auth.trustedDevices])], NoResult)

\* new Session(): the expiry the Session class gives a new session.
newSession(account, device, key, expires) ==
    [account |-> account, device |-> device, key |-> key, expires |-> expires,
     lastUsed |-> 0]

\* auth.trustedDevices after the "add device to trusted devices" step.
trustDevice(list, device) ==
    IF device # NoDevice /\ ~Contains(list, device) THEN Append(list, device) ELSE list

\* Controller.createSession
createSession(S, ctx, p, rnd) ==
    IF ~Has(S.pendingAuths, p.account) THEN Fail(S, "INVALID_CREDENTIALS")
    ELSE LET srp == srpSetA(S.pendingAuths[p.account], p.A)
             S1 == [S EXCEPT !.pendingAuths = Save(@, p.account, srp)]
         IN  IF p.M # srpM1(srp) THEN Fail(S1, "INVALID_CREDENTIALS")
             ELSE IF ~Has(S1.accounts, p.account) THEN Fail(S1, "NOT_FOUND")
             ELSE LET acc == S1.accounts[p.account]
                      id == uuid(S1, "session")
                      session == newSession(p.account, ctx.device, srpK(srp), rnd.expires)
                      acc1 == [acc EXCEPT !.sessions = Append(@, sessionInfo(id, session))]
                      S2 == deletePending(
                                [Took(S1, "session") EXCEPT
                                    !.sessions = Save(@, id, session),
                                    !.accounts = Save(@, p.account, acc1)],
                                p.account)
                  IN  IF ~Has(S2.auths, acc.email) THEN Fail(S2, "NOT_FOUND")
                      ELSE LET auth == S2.auths[acc.email]
                               auth1 == [auth EXCEPT
                                   !.trustedDevices = trustDevice(@, ctx.device)]
                               S3 == [S2 EXCEPT !.auths = Save(@, acc.email, auth1)]
                           IN  Ok(S3, [kind |-> "Session", id |-> id,
                                       session |-> deleteKey(session)])

\* Array.prototype.splice(i, 1) with i from findIndex: -1 counts from the end.
spliceOne(seq, i) ==
    LET at == IF i = 0 THEN Len(seq) ELSE i
    IN  IF Len(seq) = 0 THEN seq
        ELSE SubSeq(seq, 1, at - 1) \o SubSeq(seq, at + 1, Len(seq))

\* Controller.revokeSession
revokeSession(S, ctx, id, rnd) ==
    IF ~requireAuth(ctx) THEN Fail(S, "INVALID_SESSION")
    ELSE IF ~Has(S.sessions, id) THEN Fail(S, "NOT_FOUND")
    ELSE IF S.sessions[id].account # ctx.account THEN Fail(S, "INSUFFICIENT_PERMISSIONS")
    ELSE LET account == S.accounts[ctx.account]
             i == IdIndex(account.sessions, id)
             account1 == [account EXCEPT !.sessions = spliceOne(@, i)]
         IN  Ok([S EXCEPT !.sessions = Delete(@, id),
                          !.accounts = Save(@, ctx.account, account1)], NoResult)

\* ---------------------------------------------------------------- accounts
\* A provisioning that leaves the new vault without its owner.
privateVault_unowned(owner, name, time) ==
    [name |-> name, owner |-> NoId, org |-> NoId, revision |-> NoId,
     data |-> "", created |-> time, updated |-> time]

\* new Vault() as provisioned for an account: private, no org, no revision yet.
privateVault(owner, name, time) ==
    [name |-> name, owner |-> owner, org |-> NoId, revision |-> NoId,
     data |-> "", created |-> time, updated |-> time]

\* Controller.createAccount.  The three saves are started together; the
\* saves named by rnd.fails are refused by the storage, the others go through.
createAccount(S, ctx, p, rnd) ==
    LET chk == checkEmailVerificationToken(S, p.account.email, p.verify)
        S1 == chk.S
    IN  IF chk.code # "OK" THEN Fail(S, chk.code)
        ELSE IF Has(S1.auths, p.auth.email) THEN Fail(S1, "ACCOUNT_EXISTS")
        ELSE LET id == uuid(S1, "account")
                 rev == uuid(S1, "revision")
                 vid == uuid(S1, "vault")
                 auth == [account |-> id, verifier |-> p.auth.verifier,
                          trustedDevices |-> trustDevice(p.auth.trustedDevices, ctx.device)]
                 account == [email |-> p.account.email, name |-> p.account.name,
                             data |-> p.account.data, quota |-> p.account.quota,
                             revision |-> rev, sessions |-> <<>>, orgs |-> <<>>,
                             mainVault |-> vid, updated |-> 0]
                 S2 == Took(Took(Took(S1, "account"), "revision"), "vault")
                 S3 == [S2 EXCEPT
                           !.accounts = IF "account" \in rnd.fails THEN @
                                        ELSE Save(@, id, account),
                           !.vaults = IF "vault" \in rnd.fails THEN @
                                      ELSE Save(@, vid, privateVault(id, "My Vault", S1.now)),
                           !.auths = IF "auth" \in rnd.fails THEN @
                                     ELSE Save(@, p.auth.email, auth)]
             IN  IF rnd.fails # {} THEN Fail(S3, "SERVER_ERROR")
                 ELSE Ok(S3, [kind |-> "Account", id |-> id, revision |-> rev])

\* Controller.getAccount
getAccount(S, ctx, p, rnd) ==
    IF ~requireAuth(ctx) THEN Fail(S, "INVALID_SESSION")
    ELSE Ok(S, [kind |-> "Account", id |-> ctx.account,
                revision |-> S.accounts[ctx.account].revision])

\* ---------------------------------------------------------------- Org
\* A quota of -1 is no limit.
Unlimited == -1

\* A count check that already refuses the count equal to the quota.
exceeds_atLimit(count, quota) == quota # Unlimited /\ count >= quota

\* `quota !== -1 && count > quota`
exceeds(count, quota) == quota # Unlimited /\ count > quota

\* org.getMember({ id }): the member's place in org.members, 0 for none.
getMember(org, id) == IdIndex(org.members, id)

isMember(org, id) == getMember(org, id) # 0

roleOf(org, id) ==
    IF isMember(org, id) THEN org.members[getMember(org, id)].role ELSE "None"

isOwner(org, id) == roleOf(org, id) = "Owner"

isAdmin(org, id) == roleOf(org, id) \in {"Owner", "Admin"}

getInvite(org, id) == IdIndex(org.invites, id)

\* The vault assignments a member holds directly and through its groups.
assignments(org, id) ==
    LET own == IF isMember(org, id)
               THEN {org.members[getMember(org, id)].vaults[k] :
                        k \in DOMAIN org.members[getMember(org, id)].vaults}
               ELSE {}
        viaGroups == UNION {{org.groups[g].vaults[k] : k \in DOMAIN org.groups[g].vaults} :
                               g \in {h \in DOMAIN org.groups :
                                         Contains(org.groups[h].members, id)}}
    IN  own \cup viaGroups

\* org.canRead(vault, account) / org.canWrite(vault, account)
canRead(org, vault, id) ==
    \/ isAdmin(org, id)
    \/ roleOf(org, id) = "Member" /\ \E a \in assignments(org, id) : a.id = vault

canWrite(org, vault, id) ==
    \/ isAdmin(org, id)
    \/ roleOf(org, id) = "Member"
            /\ \E a \in assignments(org, id) : a.id = vault /\ ~a.readonly

\* Mutation of revisionMatches: every revision passes.
revisionMatches_always(supplied, stored) == TRUE

\* The revision guard: the revision supplied is the one stored.
revisionMatches(supplied, stored) == supplied = stored

\* Mutation of newRevision: the revision issued last is used again.
newRevision_reused(S) == S.uuids["revision"]

\* The revision a successful update stores.
newRevision(S) == uuid(S, "revision")

\* Controller.createOrg
createOrg(S, ctx, p, rnd) ==
    IF ~requireAuth(ctx) THEN Fail(S, "INVALID_SESSION")
    ELSE IF p.name = "" THEN Fail(S, "BAD_REQUEST")
    ELSE LET account == S.accounts[ctx.account]
             owned == {i \in DOMAIN account.orgs : S.orgs[account.orgs[i]].owner = ctx.account}
         IN  IF \E i \in DOMAIN account.orgs : ~Has(S.orgs, account.orgs[i])
             THEN Fail(S, "NOT_FOUND")
             ELSE IF account.quota.orgs # Unlimited /\ Cardinality(owned) >= account.quota.orgs
             THEN Fail(S, "QUOTA_EXCEEDED")
             ELSE LET id == uuid(S, "org")
                      rev == newRevision(S)
                      org == [name |-> p.name, owner |-> ctx.account, revision |-> rev,
                              members |-> p.members, groups |-> p.groups,
                              vaults |-> p.vaults, invites |-> p.invites,
                              quota |-> p.quota, data |-> p.data]
                  IN  Ok([Took(Took(S, "org"), "revision") EXCEPT
                             !.orgs = Save(@, id, org)],
                         [kind |-> "Org", id |-> id, revision |-> rev])

\* updateOrg, new invites: a verification record for an email without an
\* Auth record, and the invite message.
RECURSIVE newInvites(_, _, _, _)
newInvites(S, invites, i, rnd) ==
    IF i > Len(invites) THEN S
    ELSE LET email == invites[i].email
             S1 == IF Has(S.auths, email) THEN S
                   ELSE [Took(S, "token") EXCEPT
                            !.evs = Save(@, email, newEmailVerification(S, rnd.code))]
         IN  newInvites(send(S1, email, "InviteCreated"), invites, i + 1, rnd)

\* updateOrg, removed members: the org is taken off each one's account.
RECURSIVE removedMembers(_, _, _, _)
removedMembers(S, removed, i, org) ==
    IF i > Len(removed) THEN [S |-> S, code |-> "OK"]
    ELSE IF ~Has(S.accounts, removed[i].id) THEN [S |-> S, code |-> "NOT_FOUND"]
    ELSE removedMembers(
            [S EXCEPT !.accounts[removed[i].id].orgs = SelectSeq(@, LAMBDA o : o # org)],
            removed, i + 1, org)

\* updateOrg, changed vault names are written to the vaults.
RECURSIVE changedVaultNames(_, _, _, _)
changedVaultNames(S, stored, new, i) ==
    IF i > Len(stored) THEN [S |-> S, code |-> "OK"]
    ELSE LET j == IdIndex(new, stored[i].id) IN
         IF j = 0 \/ new[j].name = stored[i].name
         THEN changedVaultNames(S, stored, new, i + 1)
         ELSE IF ~Has(S.vaults, stored[i].id) THEN [S |-> S, code |-> "NOT_FOUND"]
         ELSE changedVaultNames(
                 [S EXCEPT !.vaults[stored[i].id].name = new[j].name], stored, new, i + 1)

\* updateOrg, added members: the org is put on each one's account and the
\* member is told, unless it is the caller.
RECURSIVE addedMembers(_, _, _, _, _)
addedMembers(S, added, i, org, caller) ==
    IF i > Len(added) THEN [S |-> S, code |-> "OK"]
    ELSE IF ~Has(S.accounts, added[i].id) THEN [S |-> S, code |-> "NOT_FOUND"]
    ELSE LET S1 == [S EXCEPT !.accounts[added[i].id].orgs = Append(@, org)]
             S2 == IF added[i].id # caller THEN send(S1, added[i].email, "MemberAdded")
                   ELSE S1
         IN  addedMembers(S2, added, i + 1, org, caller)

\* What an updateOrg request changes in the membership of the stored org.
membersAdded(org, p) == SelectSeq(p.members, LAMBDA m : ~isMember(org, m.id))

membersRemoved(org, p) == SelectSeq(org.members, LAMBDA m : IdIndex(p.members, m.id) = 0)

invitesAdded(org, p) == SelectSeq(p.invites, LAMBDA v : getInvite(org, v.id) = 0)

rolesChanged(org, p) ==
    \E i \in DOMAIN p.members :
        \/ ~isMember(org, p.members[i].id)
        \/ roleOf(org, p.members[i].id) # p.members[i].role

membershipDiff(org, p) ==
    \/ Len(membersAdded(org, p)) > 0
    \/ Len(membersRemoved(org, p)) > 0
    \/ Len(invitesAdded(org, p)) > 0
    \/ rolesChanged(org, p)

overQuota(org, p) ==
    \/ exceeds(Len(p.members), org.quota.members)
    \/ exceeds(Len(p.groups), org.quota.groups)

\* Mutation of mayChangeMembership: admins may, too.
mayChangeMembership_admins(owner, admin) == admin

\* Only org owners can add or remove members, change roles or create invites.
mayChangeMembership(owner, admin) == owner

\* Mutation of assignOwnerFields: the fields are taken from any caller.
assignOwnerFields_always(owner, org, p) ==
    [org EXCEPT !.name = p.name, !.data = p.data, !.invites = p.invites]

\* Certain properties may only be updated by organization owners.
assignOwnerFields(owner, org, p) ==
    IF owner THEN [org EXCEPT !.name = p.name, !.data = p.data, !.invites = p.invites]
    ELSE org

\* Controller.updateOrg
updateOrg(S, ctx, p, rnd) ==
    IF ~requireAuth(ctx) THEN Fail(S, "INVALID_SESSION")
    ELSE IF ~Has(S.orgs, p.id) THEN Fail(S, "NOT_FOUND")
    ELSE LET org == S.orgs[p.id]
             owner == org.owner = ctx.account \/ isOwner(org, ctx.account)
             admin == owner \/ isAdmin(org, ctx.account)
         IN  IF ~revisionMatches(p.revision, org.revision) THEN Fail(S, "OUTDATED_REVISION")
             ELSE IF ~admin THEN Fail(S, "INSUFFICIENT_PERMISSIONS")
             ELSE IF ~mayChangeMembership(owner, admin) /\ membershipDiff(org, p)
             THEN Fail(S, "INSUFFICIENT_PERMISSIONS")
             ELSE LET S1 == newInvites(S, invitesAdded(org, p), 1, rnd)
                      r2 == removedMembers(S1, membersRemoved(org, p), 1, p.id)
                      r3 == changedVaultNames(r2.S, org.vaults, p.vaults, 1)
                      org1 == [org EXCEPT !.members = p.members, !.groups = p.groups,
                                          !.vaults = p.vaults]
                      org2 == assignOwnerFields(owner, org1, p)
                      r4 == addedMembers(r3.S, membersAdded(org, p), 1, p.id, ctx.account)
                      rev == newRevision(r4.S)
                  IN  IF r2.code # "OK" THEN Fail(r2.S, r2.code)
                      ELSE IF r3.code # "OK" THEN Fail(r3.S, r3.code)
                      ELSE IF overQuota(org, p) THEN Fail(r3.S, "QUOTA_EXCEEDED")
                      ELSE IF r4.code # "OK" THEN Fail(r4.S, r4.code)
                      ELSE Ok([Took(r4.S, "revision") EXCEPT
                                  !.orgs = Save(@, p.id, [org2 EXCEPT !.revision = rev])],
                              [kind |-> "Org", id |-> p.id, revision |-> rev])

\* ---------------------------------------------------------------- Vault
\* May the account read, and write, the vault: its owner for a private vault,
\* by the org's word for an org vault.
\* Mutation of vaultReadable: every account may read every vault.
vaultReadable_anyone(S, vault, id, account) == TRUE

vaultReadable(S, vault, id, account) ==
    IF vault.org # NoId THEN canRead(S.orgs[vault.org], id, account)
    ELSE vault.owner = account

vaultWritable(S, vault, id, account) ==
    vault.org # NoId => canWrite(S.orgs[vault.org], id, account)

\* Controller.updateVault
updateVault(S, ctx, p, rnd) ==
    IF ~requireAuth(ctx) THEN Fail(S, "INVALID_SESSION")
    ELSE IF ~Has(S.vaults, p.id) THEN Fail(S, "NOT_FOUND")
    ELSE LET vault == S.vaults[p.id] IN
         IF vault.org # NoId /\ ~Has(S.orgs, vault.org) THEN Fail(S, "NOT_FOUND")
         ELSE IF ~vaultReadable(S, vault, p.id, ctx.account) THEN Fail(S, "NOT_FOUND")
         ELSE IF ~vaultWritable(S, vault, p.id, ctx.account)
         THEN Fail(S, "INSUFFICIENT_PERMISSIONS")
         ELSE IF ~revisionMatches(p.revision, vault.revision)
         THEN Fail(S, "OUTDATED_REVISION")
         ELSE LET rev == newRevision(S)
                  vault1 == [vault EXCEPT !.revision = rev, !.data = p.data,
                                          !.updated = S.now]
              IN  Ok([Took(S, "revision") EXCEPT !.vaults = Save(@, p.id, vault1)],
                     [kind |-> "Vault", id |-> p.id, revision |-> rev])

\* Controller.createVault
createVault(S, ctx, p, rnd) ==
    IF ~requireAuth(ctx) THEN Fail(S, "INVALID_SESSION")
    ELSE IF p.org = NoId THEN Fail(S, "BAD_REQUEST")
    ELSE IF ~Has(S.orgs, p.org) THEN Fail(S, "NOT_FOUND")
    ELSE LET org == S.orgs[p.org] IN
         IF ~isAdmin(org, ctx.account) THEN Fail(S, "INSUFFICIENT_PERMISSIONS")
         ELSE LET id == uuid(S, "vault")
                  rev == newRevision(S)
                  S1 == Took(Took(S, "vault"), "revision")
                  orgRev == newRevision(S1)
                  S2 == Took(S1, "revision")
                  vault == [name |-> p.name, owner |-> ctx.account, org |-> p.org,
                            revision |-> rev, data |-> p.data,
                            created |-> S.now, updated |-> S.now]
                  org1 == [org EXCEPT !.vaults = Append(@, [id |-> id, name |-> p.name]),
                                      !.revision = orgRev]
              IN  IF exceeds(Len(org1.vaults), org.quota.vaults)
                  THEN Fail(S2, "QUOTA_EXCEEDED")
                  ELSE Ok([S2 EXCEPT !.vaults = Save(@, id, vault),
                                     !.orgs = Save(@, p.org, org1)],
                          [kind |-> "Vault", id |-> id, revision |-> rev])

\* updateAccount, a changed name is written to the account's member entry in
\* each org of account.orgs; an org without such an entry ends the request
\* with a TypeError.
RECURSIVE memberNames(_, _, _, _, _)
memberNames(S, ids, i, account, name) ==
    IF i > Len(ids) THEN [S |-> S, code |-> "OK"]
    ELSE IF ~Has(S.orgs, ids[i]) THEN [S |-> S, code |-> "NOT_FOUND"]
    ELSE LET k == getMember(S.orgs[ids[i]], account) IN
         IF k = 0 THEN [S |-> S, code |-> "SERVER_ERROR"]
         ELSE memberNames([S EXCEPT !.orgs[ids[i]].members[k].name = name],
                          ids, i + 1, account, name)

\* Controller.updateAccount
updateAccount(S, ctx, p, rnd) ==
    IF ~requireAuth(ctx) THEN Fail(S, "INVALID_SESSION")
    ELSE LET account == S.accounts[ctx.account] IN
         IF ~revisionMatches(p.revision, account.revision)
         THEN Fail(S, "OUTDATED_REVISION")
         ELSE LET rev == newRevision(S)
                  account1 == [account EXCEPT !.revision = rev, !.name = p.name,
                                              !.email = p.email, !.data = p.data,
                                              !.updated = S.now]
                  S1 == [Took(S, "revision") EXCEPT
                            !.accounts = Save(@, ctx.account, account1)]
                  r == memberNames(S1, account1.orgs, 1, ctx.account, p.name)
              IN  IF account.name = p.name
                  THEN Ok(S1, [kind |-> "Account", id |-> ctx.account, revision |-> rev])
                  ELSE IF r.code # "OK" THEN Fail(r.S, r.code)
                  ELSE Ok(r.S, [kind |-> "Account", id |-> ctx.account, revision |-> rev])

\* recoverAccount, the memberships of the account's orgs it does not own are
\* suspended; an org without a member entry for the account ends the request
\* with a TypeError.
RECURSIVE suspendMemberships(_, _, _, _)
suspendMemberships(S, ids, i, account) ==
    IF i > Len(ids) THEN [S |-> S, code |-> "OK"]
    ELSE IF ~Has(S.orgs, ids[i]) THEN [S |-> S, code |-> "NOT_FOUND"]
    ELSE LET org == S.orgs[ids[i]]
             k == getMember(org, account)
         IN  IF isOwner(org, account) THEN suspendMemberships(S, ids, i + 1, account)
             ELSE IF k = 0 THEN [S |-> S, code |-> "SERVER_ERROR"]
             ELSE suspendMemberships(
                     [S EXCEPT !.orgs[ids[i]].members[k].role = "Suspended"],
                     ids, i + 1, account)

\* recoverAccount, "revoke all sessions": a delete is started for every entry
\* of the account's session list; what is awaited is the array of promises,
\* not the deletes.
revokeAll(S, list) == [S EXCEPT !.revoking = @ \cup {list[i].id : i \in DOMAIN list}]

\* Controller.recoverAccount
recoverAccount(S, ctx, p, rnd) ==
    LET chk == checkEmailVerificationToken(S, p.auth.email, p.verify)
        S1 == chk.S
    IN  IF chk.code # "OK" THEN Fail(S, chk.code)
        ELSE IF ~Has(S1.auths, p.auth.email) THEN Fail(S1, "NOT_FOUND")
        ELSE IF ~Has(S1.accounts, S1.auths[p.auth.email].account) THEN Fail(S1, "NOT_FOUND")
        ELSE LET id == S1.auths[p.auth.email].account
                 account == S1.accounts[id]
                 account1 == [account EXCEPT !.email = p.account.email,
                                             !.data = p.account.data]
                 auth == [account |-> id, verifier |-> p.auth.verifier,
                          trustedDevices |->
                              IF ctx.device # NoDevice
                              THEN Append(p.auth.trustedDevices, ctx.device)
                              ELSE p.auth.trustedDevices]
                 r == suspendMemberships(revokeAll(S1, account.sessions), account.orgs, 1, id)
             IN  IF r.code # "OK" THEN Fail(r.S, r.code)
                 ELSE Ok([r.S EXCEPT
                             !.accounts = Save(@, id, account1),
                             !.auths = Save(@, p.auth.email, auth),
                             !.vaults = Save(@, account.mainVault,
                                             privateVault(id, "My Vault", S1.now))],
                         [kind |-> "Account", id |-> id, revision |-> account.revision])

\* Controller.getOrg
getOrg(S, ctx, id, rnd) ==
    IF ~requireAuth(ctx) THEN Fail(S, "INVALID_SESSION")
    ELSE IF ~Has(S.orgs, id) THEN Fail(S, "NOT_FOUND")
    ELSE IF S.orgs[id].owner # ctx.account /\ ~isMember(S.orgs[id], ctx.account)
    THEN Fail(S, "NOT_FOUND")
    ELSE Ok(S, [kind |-> "Org", id |-> id, revision |-> S.orgs[id].revision])

\* Controller.getVault
getVault(S, ctx, id, rnd) ==
    IF ~requireAuth(ctx) THEN Fail(S, "INVALID_SESSION")
    ELSE IF ~Has(S.vaults, id) THEN Fail(S, "NOT_FOUND")
    ELSE LET vault == S.vaults[id] IN
         IF vault.org # NoId /\ ~Has(S.orgs, vault.org) THEN Fail(S, "NOT_FOUND")
         ELSE IF ~vaultReadable(S, vault, id, ctx.account) THEN Fail(S, "NOT_FOUND")
         ELSE Ok(S, [kind |-> "Vault", id |-> id, revision |-> vault.revision])

\* A lookup that finds no holder of the vault.
forVault_none(list, vault) == {}

\* org.getGroupsForVault(vault) / org.getMembersForVault(vault): the groups,
\* or members, of the list that have the vault assigned.
forVault(list, vault) ==
    {i \in DOMAIN list : \E k \in DOMAIN list[i].vaults : list[i].vaults[k].id = vault}

\* deleteVault, "Remove any assignments to this vault from members and
\* groups": each holder's assignments without those of the vault.
unassign(list, vault) ==
    [i \in DOMAIN list |->
        IF i \in forVault(list, vault)
        THEN [list[i] EXCEPT !.vaults = SelectSeq(@, LAMBDA a : a.id # vault)]
        ELSE list[i]]

\* attachmentStorage.deleteAll(vault)
deleteAll(table, vault) ==
    [k \in {j \in DOMAIN table : table[j].vault # vault} |-> table[k]]

\* Controller.deleteVault
deleteVault(S, ctx, id, rnd) ==
    IF ~requireAuth(ctx) THEN Fail(S, "INVALID_SESSION")
    ELSE IF ~Has(S.vaults, id) THEN Fail(S, "NOT_FOUND")
    ELSE LET vault == S.vaults[id] IN
         IF vault.org = NoId THEN Fail(S, "INSUFFICIENT_PERMISSIONS")
         ELSE IF ~Has(S.orgs, vault.org) THEN Fail(S, "NOT_FOUND")
         ELSE LET org == S.orgs[vault.org] IN
              IF ~isAdmin(org, ctx.account) THEN Fail(S, "INSUFFICIENT_PERMISSIONS")
              ELSE LET org1 == [org EXCEPT
                                   !.vaults = SelectSeq(@, LAMBDA v : v.id # id),
                                   !.groups = unassign(@, id),
                                   !.members = unassign(@, id)]
                   IN  Ok([S EXCEPT !.vaults = Delete(@, id),
                                    !.attachments = deleteAll(@, id),
                                    !.orgs = Save(@, vault.org, org1)], NoResult)

\* Controller.getInvite
getInviteOf(S, ctx, p, rnd) ==
    IF ~requireAuth(ctx) THEN Fail(S, "INVALID_SESSION")
    ELSE IF ~Has(S.orgs, p.org) THEN Fail(S, "NOT_FOUND")
    ELSE LET org == S.orgs[p.org]
             k == getInvite(org, p.id)
         IN  IF k = 0 THEN Fail(S, "NOT_FOUND")
             ELSE IF ~isOwner(org, ctx.account)
                       /\ org.invites[k].email # S.accounts[ctx.account].email
             THEN Fail(S, "NOT_FOUND")
             ELSE Ok(S, [kind |-> "Invite", id |-> p.id, email |-> org.invites[k].email])

\* An acceptInvite that also made the invited account a member.
acceptedInvite_joining(org, k, invite, account) ==
    [org EXCEPT !.invites[k] = [id |-> invite.id, email |-> invite.email,
                                accepted |-> invite.accepted,
                                invitedBy |-> invite.invitedBy],
                !.members = Append(@, [id |-> account, email |-> invite.email,
                                       name |-> "n1", role |-> "Member",
                                       vaults |-> <<>>])]

\* acceptInvite, "Update invite object": the invite the client sent takes
\* the place of the stored one; nothing else of the org changes.
acceptedInvite(org, k, invite, account) ==
    [org EXCEPT !.invites[k] = [id |-> invite.id, email |-> invite.email,
                                accepted |-> invite.accepted,
                                invitedBy |-> invite.invitedBy]]

\* Controller.acceptInvite
acceptInvite(S, ctx, invite, rnd) ==
    IF ~invite.accepted THEN Fail(S, "BAD_REQUEST")
    ELSE IF ~requireAuth(ctx) THEN Fail(S, "INVALID_SESSION")
    ELSE IF ~Has(S.orgs, invite.org) THEN Fail(S, "NOT_FOUND")
    ELSE LET org == S.orgs[invite.org]
             k == getInvite(org, invite.id)
         IN  IF k = 0 THEN Fail(S, "NOT_FOUND")
             ELSE IF org.invites[k].email # S.accounts[ctx.account].email
             THEN Fail(S, "INSUFFICIENT_PERMISSIONS")
             ELSE LET S1 == IF ~org.invites[k].accepted /\ invite.invitedBy # ""
                            THEN send(S, invite.invitedBy, "InviteAccepted")
                            ELSE S
                  IN  Ok([S1 EXCEPT !.orgs[invite.org] =
                                        acceptedInvite(@, k, invite, ctx.account)],
                         NoResult)

\* ---------------------------------------------------------------- attachments
\* The bytes one unit of quota.storage stands for.
Giga == 1000000000

\* attachmentStorage.getUsage(vault): the bytes stored for the vault.
RECURSIVE sizes(_, _)
sizes(table, ids) ==
    IF ids = {} THEN 0
    ELSE LET id == CHOOSE k \in ids : TRUE
         IN  table[id].size + sizes(table, ids \ {id})

getUsage(table, vault) == sizes(table, {k \in DOMAIN table : table[k].vault = vault})

\* The usage of all the vaults an org lists.
RECURSIVE usageOf(_, _, _)
usageOf(table, list, i) ==
    IF i > Len(list) THEN 0
    ELSE getUsage(table, list[i].id) + usageOf(table, list, i + 1)

\* Controller.createAttachment
createAttachment(S, ctx, att, rnd) ==
    IF ~requireAuth(ctx) THEN Fail(S, "INVALID_SESSION")
    ELSE IF ~Has(S.vaults, att.vault) THEN Fail(S, "NOT_FOUND")
    ELSE LET vault == S.vaults[att.vault] IN
         IF vault.org # NoId /\ ~Has(S.orgs, vault.org) THEN Fail(S, "NOT_FOUND")
         ELSE IF ~(IF vault.org # NoId
                   THEN canWrite(S.orgs[vault.org], att.vault, ctx.account)
                   ELSE vault.owner = ctx.account)
         THEN Fail(S, "INSUFFICIENT_PERMISSIONS")
         ELSE LET id == uuid(S, "attachment")
                  S1 == Took(S, "attachment")
                  currentUsage == IF vault.org # NoId
                                  THEN usageOf(S.attachments, S.orgs[vault.org].vaults, 1)
                                  ELSE getUsage(S.attachments, att.vault)
                  quota == IF vault.org # NoId THEN S.orgs[vault.org].quota
                           ELSE S.accounts[ctx.account].quota
              IN  IF quota.storage # Unlimited
                        /\ currentUsage + att.size > quota.storage * Giga
                  THEN Fail(S1, "QUOTA_EXCEEDED")
                  ELSE Ok([S1 EXCEPT !.attachments =
                                  Save(@, id, [vault |-> att.vault, size |-> att.size])],
                          [kind |-> "Attachment", id |-> id])

\* ---------------------------------------------------------------- dispatch
\* Server._process: the switch over req.method.
process(S, ctx, req, rnd) ==
    CASE req.method = "requestEmailVerification" ->
            requestEmailVerification(S, ctx, req.params, rnd)
      [] req.method = "completeEmailVerification" ->
            completeEmailVerification(S, ctx, req.params, rnd)
      [] req.method = "initAuth" -> initAuth(S, ctx, req.params, rnd)
      [] req.method = "updateAuth" -> updateAuth(S, ctx, req.params, rnd)
      [] req.method = "createSession" -> createSession(S, ctx, req.params, rnd)
      [] req.method = "revokeSession" -> revokeSession(S, ctx, req.params, rnd)
      [] req.method = "getAccount" -> getAccount(S, ctx, req.params, rnd)
      [] req.method = "createAccount" -> createAccount(S, ctx, req.params, rnd)
      [] req.method = "updateAccount" -> updateAccount(S, ctx, req.params, rnd)
      [] req.method = "recoverAccount" -> recoverAccount(S, ctx, req.params, rnd)
      [] req.method = "createOrg" -> createOrg(S, ctx, req.params, rnd)
      [] req.method = "getOrg" -> getOrg(S, ctx, req.params, rnd)
      [] req.method = "updateOrg" -> updateOrg(S, ctx, req.params, rnd)
      [] req.method = "getVault" -> getVault(S, ctx, req.params, rnd)
      [] req.method = "createVault" -> createVault(S, ctx, req.params, rnd)
      [] req.method = "deleteVault" -> deleteVault(S, ctx, req.params, rnd)
      [] req.method = "getInvite" -> getInviteOf(S, ctx, req.params, rnd)
      [] req.method = "acceptInvite" -> acceptInvite(S, ctx, req.params, rnd)
      [] req.method = "updateVault" -> updateVault(S, ctx, req.params, rnd)
      [] req.method = "createAttachment" -> createAttachment(S, ctx, req.params, rnd)
      [] OTHER -> Fail(S, "INVALID_REQUEST")

\* BaseServer.handle: authenticate, then process; an error of either becomes
\* the response, and what was stored before the error stays stored.
handle(S, req, rnd) ==
    LET a == authenticate(S, req)
    IN  IF a.code # "OK" THEN Fail(a.S, a.code) ELSE process(a.S, a.ctx, req, rnd)

\* ---------------------------------------------------------------- observations
\* What a request looked like against the store it arrived at; kept with the
\* response so that a property can relate the two.
ObserveAuth(S, req) ==
    IF req.auth = NoAuth
    THEN [given |-> FALSE, known |-> FALSE, expired |-> FALSE, signed |-> FALSE]
    ELSE LET sid == req.auth[1] IN
         [given |-> TRUE,
          known |-> Has(S.sessions, sid),
          expired |-> /\ Has(S.sessions, sid)
                      /\ S.sessions[sid].expires # NoExpiry
                      /\ S.sessions[sid].expires < S.now,
          signed |-> Has(S.sessions, sid) /\ req.auth[2] = S.sessions[sid].key]

ObserveInitAuth(S, req) ==
    LET e == req.params.email
        t == req.params.verify
    IN  [email |-> e,
         hasAuth |-> Has(S.auths, e),
         trusted |-> /\ Has(S.auths, e)
                     /\ req.device # NoDevice
                     /\ \E i \in DOMAIN S.auths[e].trustedDevices :
                            S.auths[e].trustedDevices[i] = req.device,
         token |-> IF t = NoToken THEN "none"
                   ELSE IF Has(S.evs, e) /\ S.evs[e].token = t THEN "valid"
                   ELSE "invalid",
         verify |-> t]

ObserveCreateSession(S, req) ==
    LET x == req.params.account
        M == req.params.M
    IN  [account |-> x, A |-> req.params.A, M |-> M,
         pending |-> Has(S.pendingAuths, x),
         replay |-> \E sid \in DOMAIN S.sessions :
                        /\ S.sessions[sid].account = x
                        /\ S.sessions[sid].key = <<"K", M[2], M[3], M[4]>>]

\* Whom the request's session authenticates, NoId for nobody.
Caller(S, req) ==
    IF req.auth # NoAuth /\ authenticate(S, req).code = "OK"
    THEN authenticate(S, req).ctx.account
    ELSE NoId

\* What, besides the revision and the caller's rights, stands in the way of
\* an updateOrg request: the account of a removed member is missing, the new
\* member or group count is over the quota, the account of an added member is
\* missing.
OrgHindrance(S, org, p) ==
    IF \E i \in DOMAIN org.members :
          IdIndex(p.members, org.members[i].id) = 0 /\ ~Has(S.accounts, org.members[i].id)
    THEN "account"
    ELSE IF overQuota(org, p) THEN "quota"
    ELSE IF \E i \in DOMAIN p.members :
               ~isMember(org, p.members[i].id) /\ ~Has(S.accounts, p.members[i].id)
    THEN "account"
    ELSE "none"

\* An update request against the aggregate it names: does the aggregate
\* exist, which revision is stored and which supplied, may the caller make the
\* change.
ObserveUpdate(S, req) ==
    LET caller == Caller(S, req)
        p == req.params
    IN  CASE req.method = "updateAccount" ->
               [id |-> caller,
                exists |-> caller # NoId,
                stored |-> IF caller # NoId THEN S.accounts[caller].revision ELSE NoId,
                supplied |-> p.revision,
                permitted |-> caller # NoId,
                hindrance |->
                    IF /\ caller # NoId
                       /\ S.accounts[caller].name # p.name
                       /\ \E i \in DOMAIN S.accounts[caller].orgs :
                              ~isMember(S.orgs[S.accounts[caller].orgs[i]], caller)
                    THEN "member" ELSE "none"]
          [] req.method = "updateOrg" ->
               LET org == S.orgs[p.id] IN
               [id |-> p.id,
                exists |-> Has(S.orgs, p.id),
                stored |-> IF Has(S.orgs, p.id) THEN org.revision ELSE NoId,
                supplied |-> p.revision,
                permitted |->
                    /\ caller # NoId
                    /\ Has(S.orgs, p.id)
                    /\ \/ org.owner = caller
                       \/ isOwner(org, caller)
                       \/ isAdmin(org, caller) /\ ~membershipDiff(org, p),
                hindrance |-> IF Has(S.orgs, p.id) THEN OrgHindrance(S, org, p) ELSE "none",
                members |-> Len(p.members),
                groups |-> Len(p.groups),
                owner |-> /\ caller # NoId
                          /\ Has(S.orgs, p.id)
                          /\ (org.owner = caller \/ roleOf(org, caller) = "Owner"),
                role |-> IF caller # NoId /\ Has(S.orgs, p.id) THEN roleOf(org, caller)
                         ELSE "None",
                diff |-> /\ Has(S.orgs, p.id)
                         /\ \/ \E i \in DOMAIN p.members :
                                    roleOf(org, p.members[i].id) # p.members[i].role
                            \/ \E i \in DOMAIN org.members :
                                    \A j \in DOMAIN p.members :
                                        p.members[j].id # org.members[i].id
                            \/ \E i \in DOMAIN p.invites :
                                    \A j \in DOMAIN org.invites :
                                        org.invites[j].id # p.invites[i].id,
                name |-> p.name]
          [] req.method = "updateVault" ->
               [id |-> p.id,
                exists |-> Has(S.vaults, p.id),
                stored |-> IF Has(S.vaults, p.id) THEN S.vaults[p.id].revision ELSE NoId,
                supplied |-> p.revision,
                permitted |->
                    /\ caller # NoId
                    /\ Has(S.vaults, p.id)
                    /\ vaultReadable(S, S.vaults[p.id], p.id, caller)
                    /\ vaultWritable(S, S.vaults[p.id], p.id, caller),
                hindrance |-> "none"]

\* A code sent for an email: is there a record, is the code the record's,
\* how many wrong codes has the record seen.
ObserveCode(S, req) ==
    LET e == req.params.email IN
    [email |-> e,
     exists |-> Has(S.evs, e),
     right |-> Has(S.evs, e) /\ S.evs[e].code = toLowerCase(req.params.code),
     tries |-> IF Has(S.evs, e) THEN S.evs[e].tries ELSE 0]

\* A recovery request: the account the email's Auth record names, and the
\* sessions stored for that account when the request arrived.
ObserveRecover(S, req) ==
    LET e == req.params.auth.email
        x == IF Has(S.auths, e) THEN S.auths[e].account ELSE NoId
    IN  [email |-> e,
         token |-> req.params.verify,
         account |-> x,
         sessions |-> {sid \in DOMAIN S.sessions : S.sessions[sid].account = x}]

\* deleteVault: the vault named, how many members and groups of its org
\* hold it and how many attachments it has when the request arrives.
ObserveDelete(S, req) ==
    LET id == req.params
        o == IF Has(S.vaults, id) THEN S.vaults[id].org ELSE NoId
    IN  [id |-> id,
         holders |-> IF o # NoId /\ Has(S.orgs, o)
                     THEN Cardinality(forVault(S.orgs[o].members, id))
                              + Cardinality(forVault(S.orgs[o].groups, id))
                     ELSE 0,
         stored |-> Cardinality({k \in DOMAIN S.attachments : S.attachments[k].vault = id})]

Observe(S, req) ==
    [auth |-> ObserveAuth(S, req),
     caller |-> Caller(S, req),
     call |-> CASE req.method = "initAuth" -> ObserveInitAuth(S, req)
                [] req.method = "createSession" -> ObserveCreateSession(S, req)
                [] req.method \in {"updateAccount", "updateOrg", "updateVault"} ->
                        ObserveUpdate(S, req)
                [] req.method \in {"getOrg", "getVault"} ->
                        [id |-> req.params]
                [] req.method = "completeEmailVerification" ->
                        ObserveCode(S, req)
                [] req.method = "recoverAccount" -> ObserveRecover(S, req)
                [] req.method = "createVault" -> [org |-> req.params.org]
                [] req.method \in {"getInvite", "acceptInvite"} -> req.params
                [] req.method = "createAttachment" -> req.params
                [] req.method = "createOrg" -> [name |-> req.params.name]
                [] req.method = "createAccount" ->
                        [email |-> req.params.account.email,
                         auth |-> req.params.auth.email,
                         token |-> req.params.verify]
                [] req.method = "revokeSession" -> [id |-> req.params]
                [] req.method = "deleteVault" -> ObserveDelete(S, req)
                [] req.method = "updateAuth" -> req.params
                [] OTHER -> NoResult]

WithinBounds(S) ==
    /\ S.uuids["account"] <= MaxAccounts
    /\ S.uuids["session"] <= MaxSessions
    /\ S.uuids["exchange"] <= MaxExchanges
    /\ S.uuids["token"] <= MaxTokens
    /\ S.uuids["revision"] <= MaxRevisions
    /\ S.uuids["org"] <= MaxOrgs
    /\ S.uuids["attachment"] <= MaxAttachments
    /\ Cardinality(S.detached) <= MaxDetached
    /\ \A a \in DOMAIN S.accounts : Len(S.accounts[a].orgs) <= MaxOrgLinks

Request(method, params, auth, device) ==
    [method |-> method, params |-> params, auth |-> auth, device |-> device]

\* One request handled start to end.
Handle(req, rnd) ==
    \E r \in {handle(Store, req, rnd)} :
        /\ WithinBounds(r.S)
        /\ auths' = r.S.auths
        /\ accounts' = r.S.accounts
        /\ sessions' = r.S.sessions
        /\ evs' = r.S.evs
        /\ vaults' = r.S.vaults
        /\ orgs' = r.S.orgs
        /\ attachments' = r.S.attachments
        /\ pendingAuths' = r.S.pendingAuths
        /\ detached' = r.S.detached
        /\ revoking' = r.S.revoking
        /\ inflight' = inflight
        /\ outbox' = r.S.outbox
        /\ uuids' = r.S.uuids
        /\ now' = now
        /\ res' = [method |-> req.method, code |-> r.code, out |-> r.out,
                   obs |-> Observe(Store, req)]

\* What a handler saved in a table: the records it stored anew or changed.
Written(before, after) ==
    [k \in {j \in DOMAIN after : ~Has(before, j) \/ before[j] # after[j]} |-> after[k]]

\* The table after the saves of a handler reached it.
Overwrite(table, written) ==
    [k \in DOMAIN table \cup DOMAIN written |->
        IF k \in DOMAIN written THEN written[k] ELSE table[k]]

\* An update handler up to the await that follows its revision guard: the
\* request is authenticated, the aggregate is read and checked, the new
\* revision is asked for.  A request that fails its checks is answered at
\* once; otherwise what the handler is going to save is kept until it
\* resumes, and other requests are handled in between.
Begin(req, rnd) ==
    \E a \in {authenticate(Store, req)}, r \in {handle(Store, req, rnd)} :
        IF r.code # "OK" THEN Handle(req, rnd)
        ELSE /\ Cardinality(inflight) < MaxInflight
             /\ WithinBounds(r.S)
             /\ accounts' = a.S.accounts
             /\ sessions' = a.S.sessions
             /\ uuids' = r.S.uuids
             /\ inflight' = inflight \cup
                    {[method |-> req.method, out |-> r.out, obs |-> Observe(Store, req),
                      accounts |-> Written(a.S.accounts, r.S.accounts),
                      orgs |-> Written(a.S.orgs, r.S.orgs),
                      vaults |-> Written(a.S.vaults, r.S.vaults),
                      attachments |-> Written(a.S.attachments, r.S.attachments)]}
             /\ UNCHANGED <<auths, evs, vaults, orgs, attachments, pendingAuths, detached,
                            revoking, outbox, now, res>>

\* A handler resumes after its await: it saves what it holds and answers.
End ==
    \E h \in inflight :
        /\ accounts' = Overwrite(accounts, h.accounts)
        /\ orgs' = Overwrite(orgs, h.orgs)
        /\ vaults' = Overwrite(vaults, h.vaults)
        /\ attachments' = Overwrite(attachments, h.attachments)
        /\ inflight' = inflight \ {h}
        /\ res' = [method |-> h.method, code |-> "OK", out |-> h.out, obs |-> h.obs]
        /\ UNCHANGED <<auths, sessions, evs, pendingAuths, detached, revoking, outbox,
                       uuids, now>>

\* ---------------------------------------------------------------- what clients send
DeviceInputs == Devices \cup {NoDevice}

TokenInputs == 0..MaxTokens

\* req.auth: none, or a session id with a signature made with a key the
\* client holds (the session's own key) or with another key.
SignedInputs == {<<sid, sessions[sid].key>> : sid \in DOMAIN sessions}

ForgedInputs == {<<sid, BadSignature>> : sid \in 1..MaxSessions}

AuthInputs == {NoAuth} \cup SignedInputs \cup ForgedInputs

DeviceLists == {<<>>, <<"d1">>}

\* The proofs a client can compute: from a password (its verifier), the B it
\* was sent and its own A.
ProofInputs ==
    {<<"M1", v, b, A>> : v \in Verifiers, b \in 1..MaxExchanges, A \in ClientEphemerals}

NoRandom == [code |-> "", expires |-> NoExpiry, fails |-> {}]

\* ---------------------------------------------------------------- actions
\* Each action is one request handled start to end; its parameters are the
\* sets the request's fields are drawn from.
RequestEmailVerification(emails, auths_, devices) ==
    /\ WithinBounds(Store)
    /\ \E e \in emails, a \in auths_, d \in devices, c \in Codes :
           Handle(Request("requestEmailVerification", [email |-> e], a, d),
                  [NoRandom EXCEPT !.code = c])

CreateAccount(emails, devices) ==
    /\ WithinBounds(Store)
    /\ \E e \in emails, ae \in emails, v \in Verifiers, t \in TokenInputs, d \in devices :
           Handle(Request("createAccount",
                          [account |-> [email |-> e, name |-> "n1", data |-> "x1",
                                        quota |-> [orgs |-> 1, storage |-> 1]],
                           auth |-> [email |-> ae, verifier |-> v, trustedDevices |-> <<>>],
                           verify |-> t],
                          NoAuth, d),
                  NoRandom)

\* createAccount requests during which the storage refuses some saves.
CreateAccountFailing(emails, devices, failures) ==
    /\ WithinBounds(Store)
    /\ \E e \in emails, v \in Verifiers, t \in TokenInputs, d \in devices, f \in failures :
           Handle(Request("createAccount",
                          [account |-> [email |-> e, name |-> "n1", data |-> "x1",
                                        quota |-> [orgs |-> 1, storage |-> 1]],
                           auth |-> [email |-> e, verifier |-> v, trustedDevices |-> <<>>],
                           verify |-> t],
                          NoAuth, d),
                  [NoRandom EXCEPT !.fails = f])

InitAuth(emails, tokens, devices) ==
    /\ WithinBounds(Store)
    /\ \E e \in emails, t \in tokens, d \in devices :
           Handle(Request("initAuth", [email |-> e, verify |-> t], NoAuth, d), NoRandom)

\* The dropped promise of initAuth's token check runs to its end.
DetachedTokenCheck ==
    \E t \in detached :
        LET r == checkEmailVerificationToken(Store, t[1], t[2])
        IN  /\ evs' = r.S.evs
            /\ detached' = detached \ {t}
            /\ UNCHANGED <<auths, accounts, sessions, vaults, orgs, attachments,
                           pendingAuths, revoking, inflight, outbox, uuids, now, res>>

CreateSession(devices, expiries) ==
    /\ WithinBounds(Store)
    /\ \E x \in 1..MaxAccounts, A \in ClientEphemerals, M \in ProofInputs,
          d \in devices, ex \in expiries :
           Handle(Request("createSession", [account |-> x, A |-> A, M |-> M], NoAuth, d),
                  [NoRandom EXCEPT !.expires = ex])

\* createSession up to its read of the Account: the pending exchange is
\* looked up, A is applied to it and the proof is compared; a request that
\* fails is answered at once.  The handler then holds the Account it read
\* with the new session pushed on its list, and the Session, until its
\* saves reach the storage; other requests are handled in between.
BeginCreateSession(devices, expiries) ==
    /\ WithinBounds(Store)
    /\ \E x \in 1..MaxAccounts, A \in ClientEphemerals, M \in ProofInputs,
          d \in devices, ex \in expiries :
        \E req \in {Request("createSession", [account |-> x, A |-> A, M |-> M], NoAuth, d)} :
        \E r \in {handle(Store, req, [NoRandom EXCEPT !.expires = ex])} :
            IF r.code # "OK" THEN Handle(req, [NoRandom EXCEPT !.expires = ex])
            ELSE /\ Cardinality(inflight) < MaxInflight
                 /\ WithinBounds(r.S)
                 /\ pendingAuths' = Save(pendingAuths, x, srpSetA(pendingAuths[x], A))
                 /\ uuids' = r.S.uuids
                 /\ inflight' = inflight \cup
                        {[method |-> req.method, out |-> r.out, obs |-> Observe(Store, req),
                          accounts |-> Written(accounts, r.S.accounts),
                          sessions |-> Written(sessions, r.S.sessions)]}
                 /\ UNCHANGED <<auths, accounts, sessions, evs, vaults, orgs, attachments,
                                detached, revoking, outbox, now, res>>

\* createSession from its saves on: the Session and the Account the handler
\* holds are stored, the pending exchange is deleted, and the device is put
\* on the trusted devices of the Auth record as it is stored by then.
EndCreateSession ==
    \E h \in inflight :
        /\ h.method = "createSession"
        /\ \E x \in DOMAIN h.accounts, id \in DOMAIN h.sessions :
            LET email == h.accounts[x].email
                found == Has(auths, email)
            IN  /\ sessions' = Overwrite(sessions, h.sessions)
                /\ accounts' = Overwrite(accounts, h.accounts)
                /\ pendingAuths' = Delete(pendingAuths, x)
                /\ auths' = IF found
                            THEN [auths EXCEPT ![email].trustedDevices =
                                                  trustDevice(@, h.sessions[id].device)]
                            ELSE auths
                /\ res' = [method |-> h.method,
                           code |-> IF found THEN "OK" ELSE "NOT_FOUND",
                           out |-> IF found THEN h.out ELSE NoResult,
                           obs |-> h.obs]
        /\ inflight' = inflight \ {h}
        /\ UNCHANGED <<evs, vaults, orgs, attachments, detached, revoking, outbox,
                       uuids, now>>

UpdateAuth(emails, lists, auths_, devices) ==
    /\ WithinBounds(Store)
    /\ \E e \in emails, x \in 1..MaxAccounts, v \in Verifiers, l \in lists,
          a \in auths_, d \in devices :
           Handle(Request("updateAuth",
                          [email |-> e, account |-> x, verifier |-> v, trustedDevices |-> l],
                          a, d),
                  NoRandom)

GetAccount(auths_, devices) ==
    /\ WithinBounds(Store)
    /\ \E a \in auths_, d \in devices :
           Handle(Request("getAccount", [none |-> TRUE], a, d), NoRandom)

\* A getAccount request up to the saves of its authentication: the Session
\* and the Account are read, the signature is verified, and the handler
\* holds the Session it touched and the Account with the session's entry
\* set; a request that fails authentication is answered at once.
BeginGetAccount(auths_, devices) ==
    /\ WithinBounds(Store)
    /\ \E a \in auths_, d \in devices :
        \E req \in {Request("getAccount", [none |-> TRUE], a, d)} :
        \E r \in {authenticate(Store, req)} :
            IF r.code # "OK" \/ a = NoAuth THEN Handle(req, NoRandom)
            ELSE /\ Cardinality(inflight) < MaxInflight
                 /\ inflight' = inflight \cup
                        {[method |-> req.method,
                          out |-> getAccount(r.S, r.ctx, req.params, NoRandom).out,
                          obs |-> Observe(Store, req),
                          accounts |-> [k \in {r.ctx.account} |-> r.S.accounts[k]],
                          sessions |-> [k \in {r.ctx.session} |-> r.S.sessions[k]]]}
                 /\ UNCHANGED <<auths, accounts, sessions, evs, vaults, orgs, attachments,
                                pendingAuths, detached, revoking, outbox, uuids, now, res>>

\* The saves of the authentication reach the storage and the request is
\* answered.
EndGetAccount ==
    \E h \in inflight :
        /\ h.method = "getAccount"
        /\ sessions' = Overwrite(sessions, h.sessions)
        /\ accounts' = Overwrite(accounts, h.accounts)
        /\ inflight' = inflight \ {h}
        /\ res' = [method |-> h.method, code |-> "OK", out |-> h.out, obs |-> h.obs]
        /\ UNCHANGED <<auths, evs, vaults, orgs, attachments, pendingAuths, detached,
                       revoking, outbox, uuids, now>>

RevokeSession(auths_, devices) ==
    /\ WithinBounds(Store)
    /\ \E id \in 1..MaxSessions, a \in auths_, d \in devices :
           Handle(Request("revokeSession", id, a, d), NoRandom)

CompleteEmailVerification(emails, codes, devices) ==
    /\ WithinBounds(Store)
    /\ \E e \in emails, c \in codes, d \in devices :
           Handle(Request("completeEmailVerification", [email |-> e, code |-> c],
                          NoAuth, d),
                  NoRandom)

RecoverAccount(emails, tokens, auths_, devices) ==
    /\ WithinBounds(Store)
    /\ \E e \in emails, v \in Verifiers, t \in tokens, a \in auths_, d \in devices :
           Handle(Request("recoverAccount",
                          [account |-> [email |-> e, data |-> "x2"],
                           auth |-> [email |-> e, verifier |-> v, trustedDevices |-> <<>>],
                           verify |-> t],
                          a, d),
                  NoRandom)

\* recoverAccount requests whose Auth record comes with a list of trusted
\* devices.
RecoverAccountTrusting(emails, lists, tokens, devices) ==
    /\ WithinBounds(Store)
    /\ \E e \in emails, v \in Verifiers, l \in lists, t \in tokens, d \in devices :
           Handle(Request("recoverAccount",
                          [account |-> [email |-> e, data |-> "x2"],
                           auth |-> [email |-> e, verifier |-> v, trustedDevices |-> l],
                           verify |-> t],
                          NoAuth, d),
                  NoRandom)

\* A session delete that recoverAccount started reaches the storage.
DetachedSessionDelete ==
    \E sid \in revoking :
        /\ sessions' = Delete(sessions, sid)
        /\ revoking' = revoking \ {sid}
        /\ UNCHANGED <<auths, accounts, evs, vaults, orgs, attachments, pendingAuths,
                       detached, inflight, outbox, uuids, now, res>>

GetOrg(ids, auths_, devices) ==
    /\ WithinBounds(Store)
    /\ \E id \in ids, a \in auths_, d \in devices :
           Handle(Request("getOrg", id, a, d), NoRandom)

GetVault(ids, auths_, devices) ==
    /\ WithinBounds(Store)
    /\ \E id \in ids, a \in auths_, d \in devices :
           Handle(Request("getVault", id, a, d), NoRandom)

CreateVault(names, auths_, devices) ==
    /\ WithinBounds(Store)
    /\ \E o \in DOMAIN orgs, n \in names, a \in auths_, d \in devices :
           Handle(Request("createVault", [name |-> n, org |-> o, data |-> "x1"], a, d),
                  NoRandom)

\* createVault requests for an org, or for none.
CreateVaultIn(orgIds, names, auths_, devices) ==
    /\ WithinBounds(Store)
    /\ \E o \in orgIds, n \in names, a \in auths_, d \in devices :
           Handle(Request("createVault", [name |-> n, org |-> o, data |-> "x1"], a, d),
                  NoRandom)

DeleteVault(auths_, devices) ==
    /\ WithinBounds(Store)
    /\ \E id \in DOMAIN vaults, a \in auths_, d \in devices :
           Handle(Request("deleteVault", id, a, d), NoRandom)

GetInvite(orgIds, ids, auths_, devices) ==
    /\ WithinBounds(Store)
    /\ \E o \in orgIds, id \in ids, a \in auths_, d \in devices :
           Handle(Request("getInvite", [org |-> o, id |-> id], a, d), NoRandom)

AcceptInvite(invites, auths_, devices) ==
    /\ WithinBounds(Store)
    /\ \E v \in invites, a \in auths_, d \in devices :
           Handle(Request("acceptInvite", v, a, d), NoRandom)

\* createAttachment requests whose handlers other requests may overtake
\* between the reading of the usage and the storing of the attachment.
BeginCreateAttachment(sizes_, auths_, devices) ==
    /\ WithinBounds(Store)
    /\ \E v \in DOMAIN vaults, n \in sizes_, a \in auths_, d \in devices :
           Begin(Request("createAttachment", [vault |-> v, size |-> n], a, d), NoRandom)

CreateOrg(names, quotas, auths_, devices) ==
    /\ WithinBounds(Store)
    /\ \E n \in names, q \in quotas, a \in auths_, d \in devices :
           Handle(Request("createOrg",
                          [name |-> n, data |-> "x1", members |-> <<>>, groups |-> <<>>,
                           vaults |-> <<>>, invites |-> <<>>, quota |-> q],
                          a, d),
                  NoRandom)

\* createOrg requests whose org comes with a member list.
CreateOrgWith(names, memberLists, quotas, auths_, devices) ==
    /\ WithinBounds(Store)
    /\ \E n \in names, m \in memberLists, q \in quotas, a \in auths_, d \in devices :
           Handle(Request("createOrg",
                          [name |-> n, data |-> "x1", members |-> m, groups |-> <<>>,
                           vaults |-> <<>>, invites |-> <<>>, quota |-> q],
                          a, d),
                  NoRandom)

\* updateOrg requests, based on the stored revision, that replace the org's
\* members and groups.
UpdateOrgCounts(memberLists, groupLists, auths_, devices) ==
    /\ WithinBounds(Store)
    /\ \E id \in DOMAIN orgs, m \in memberLists, g \in groupLists, a \in auths_,
          d \in devices :
           Handle(Request("updateOrg",
                          [id |-> id, name |-> orgs[id].name, data |-> orgs[id].data,
                           members |-> m, groups |-> g, vaults |-> orgs[id].vaults,
                           invites |-> orgs[id].invites, revision |-> orgs[id].revision],
                          a, d),
                  NoRandom)

\* updateOrg requests that leave the org as it is stored but for its invites.
UpdateOrgInvites(inviteLists, auths_, devices) ==
    /\ WithinBounds(Store)
    /\ \E id \in DOMAIN orgs, v \in inviteLists, a \in auths_, d \in devices :
           Handle(Request("updateOrg",
                          [id |-> id, name |-> orgs[id].name, data |-> orgs[id].data,
                           members |-> orgs[id].members, groups |-> orgs[id].groups,
                           vaults |-> orgs[id].vaults, invites |-> v,
                           revision |-> orgs[id].revision],
                          a, d),
                  [NoRandom EXCEPT !.code = "c1"])

\* The revisions a client sends with an update: the stored one, the one it
\* read earlier, or none.
RevisionInputs(stored, read) == {stored, read, NoId}

\* The store `read` is where the clients last read the aggregates they update.
UpdateAccount(names, auths_, devices, read) ==
    /\ WithinBounds(Store)
    /\ \E a \in auths_, n \in names, d \in devices :
        LET own == IF a = NoAuth THEN NoId ELSE sessions[a[1]].account
        IN  \E r \in IF own = NoId THEN {NoId}
                     ELSE RevisionInputs(accounts[own].revision, read.accounts[own].revision) :
               Handle(Request("updateAccount",
                              [name |-> n,
                               email |-> IF own = NoId THEN "e1" ELSE accounts[own].email,
                               data |-> "x1", revision |-> r],
                              a, d),
                      NoRandom)

UpdateOrg(names, memberLists, auths_, devices, read) ==
    /\ WithinBounds(Store)
    /\ \E id \in DOMAIN orgs \cap DOMAIN read.orgs, n \in names, m \in memberLists,
          a \in auths_, d \in devices :
        \E r \in RevisionInputs(orgs[id].revision, read.orgs[id].revision) :
            Handle(Request("updateOrg",
                           [id |-> id, name |-> n, data |-> orgs[id].data, members |-> m,
                            groups |-> orgs[id].groups, vaults |-> orgs[id].vaults,
                            invites |-> orgs[id].invites, revision |-> r],
                           a, d),
                   NoRandom)

UpdateVault(datas, auths_, devices, read) ==
    /\ WithinBounds(Store)
    /\ \E id \in DOMAIN vaults \cap DOMAIN read.vaults, x \in datas, a \in auths_,
          d \in devices :
        \E r \in RevisionInputs(vaults[id].revision, read.vaults[id].revision) :
            Handle(Request("updateVault", [id |-> id, data |-> x, revision |-> r], a, d),
                   NoRandom)

\* Update requests whose handlers other requests may overtake.  The account's
\* name and the org's members are sent as they are stored, so that all the
\* handler saves is the aggregate itself, after its last await.
BeginUpdateAccount(datas, auths_, devices) ==
    /\ WithinBounds(Store)
    /\ \E a \in auths_, x \in datas, d \in devices :
        LET own == sessions[a[1]].account
        IN  Begin(Request("updateAccount",
                          [name |-> accounts[own].name, email |-> accounts[own].email,
                           data |-> x, revision |-> accounts[own].revision],
                          a, d),
                  NoRandom)

BeginUpdateOrg(names, auths_, devices) ==
    /\ WithinBounds(Store)
    /\ \E id \in DOMAIN orgs, n \in names, a \in auths_, d \in devices :
           Begin(Request("updateOrg",
                         [id |-> id, name |-> n, data |-> orgs[id].data,
                          members |-> orgs[id].members, groups |-> orgs[id].groups,
                          vaults |-> orgs[id].vaults, invites |-> orgs[id].invites,
                          revision |-> orgs[id].revision],
                         a, d),
                 NoRandom)

BeginUpdateVault(datas, auths_, devices) ==
    /\ WithinBounds(Store)
    /\ \E id \in DOMAIN vaults, x \in datas, a \in auths_, d \in devices :
           Begin(Request("updateVault",
                         [id |-> id, data |-> x, revision |-> vaults[id].revision], a, d),
                 NoRandom)

\* Time passes.
Tick ==
    /\ now < MaxTime
    /\ now' = now + 1
    /\ UNCHANGED <<auths, accounts, sessions, evs, vaults, orgs, attachments,
                   pendingAuths, detached, revoking, inflight, outbox, uuids, res>>

NoUuids ==
    [kind \in {"account", "session", "exchange", "token", "revision", "vault", "org",
               "attachment"} |-> 0]

\* The server after construction: empty storage, no pending exchange.
EmptyStore ==
    [auths |-> <<>>, accounts |-> <<>>, sessions |-> <<>>, evs |-> <<>>,
     vaults |-> <<>>, orgs |-> <<>>, attachments |-> <<>>, pendingAuths |-> <<>>,
     detached |-> {},
     revoking |-> {}, outbox |-> {}, uuids |-> NoUuids, now |-> 1]

NoResponse ==
    [method |-> "", code |-> "", out |-> NoResult,
     obs |-> [auth |-> [given |-> FALSE, known |-> FALSE, expired |-> FALSE,
                        signed |-> FALSE],
              caller |-> NoId,
              call |-> NoResult]]

StartAt(S) ==
    /\ auths = S.auths
    /\ accounts = S.accounts
    /\ sessions = S.sessions
    /\ evs = S.evs
    /\ vaults = S.vaults
    /\ orgs = S.orgs
    /\ attachments = S.attachments
    /\ pendingAuths = S.pendingAuths
    /\ detached = S.detached
    /\ revoking = S.revoking
    /\ inflight = {}
    /\ outbox = S.outbox
    /\ uuids = S.uuids
    /\ now = S.now
    /\ res = NoResponse

\* The store after email e, with verifier v, has verified its address and
\* signed up from device d.
Verified(S, e, d) ==
    handle(S, Request("requestEmailVerification", [email |-> e], NoAuth, d),
           [NoRandom EXCEPT !.code = "c1"]).S

Registered(S, e, v, d) ==
    handle(S, Request("createAccount",
                      [account |-> [email |-> e, name |-> "n1", data |-> "x1",
                                    quota |-> [orgs |-> 1, storage |-> 1]],
                       auth |-> [email |-> e, verifier |-> v, trustedDevices |-> <<>>],
                       verify |-> S.evs[e].token],
                      NoAuth, d),
           NoRandom).S

SignUp(S, e, v, d) == Registered(Verified(S, e, d), e, v, d)

\* Two accounts have signed up, each from device d1.
SignedUp == SignUp(SignUp(EmptyStore, "e1", "v1", "d1"), "e2", "v2", "d1")

Init == StartAt(SignedUp)

\* Logging in: clients on device d1 start exchanges, answer them, and change
\* their Auth record once they hold a session.
LoginInitAuth == InitAuth({"e1", "e2"}, {NoToken}, {"d1"})

LoginCreateSession == CreateSession({"d1"}, {NoExpiry})

LoginUpdateAuth == UpdateAuth({"e1", "e2"}, {<<"d1">>}, {NoAuth} \cup SignedInputs, {"d1"})

Next ==
    \/ LoginInitAuth
    \/ LoginCreateSession
    \/ LoginUpdateAuth

Spec == Init /\ [][Next]_vars

\* ---------------------------------------------------------------- login claims
\* The exchange a createSession request is checked against, and the proof
\* that exchange expects for the request's A.
Answered(x) == res'.method = "createSession" /\ res'.obs.call.account = x

ExpectedProof(x) == srpM1(srpSetA(pendingAuths[x], res'.obs.call.A))

RightProof(x) == Has(pendingAuths, x) /\ res'.obs.call.M = ExpectedProof(x)

\* C1: createSession(X, A, M) succeeds exactly when a pending exchange for X
\* exists and M is the proof derived from it, every exchange stored for X
\* having been initialised from the verifier of X's own Auth record; any other
\* proof is answered INVALID_CREDENTIALS and no Session is created or added to
\* the account's session list.
C1_SessionOnlyForTheAccountsVerifier ==
    [][\A x \in 1..MaxAccounts :
          /\ (res'.method = "initAuth" /\ res'.code = "OK" /\ res'.out.account = x)
                => /\ Has(accounts, x)
                   /\ Has(auths, accounts[x].email)
                   /\ pendingAuths'[x].v = auths[accounts[x].email].verifier
          /\ Answered(x)
                => /\ (res'.code = "OK") <=> RightProof(x)
                   /\ ~RightProof(x)
                        => /\ res'.code = "INVALID_CREDENTIALS"
                           /\ sessions' = sessions
                           /\ accounts' = accounts]_vars

\* C2: the Session returned by a successful createSession carries no key,
\* while the Session stored under the same id still holds the key the
\* exchange produced.
C2_ReturnedSessionHasNoKey ==
    (res.method = "createSession" /\ res.code = "OK")
        => /\ res.out.session.key = NoKey
           /\ Has(sessions, res.out.id)
           /\ sessions[res.out.id].key = <<"K", res.obs.call.M[2], res.obs.call.M[3],
                                           res.obs.call.A>>
           /\ sessions[res.out.id].key # NoKey

C2_Witness ==
    /\ res.method = "createSession"
    /\ res.code = "OK"
    /\ Has(sessions, res.out.id)
    /\ sessions[res.out.id].account = res.obs.call.account

\* C5: once a createSession request for an account with a pending exchange
\* has been answered, with success or with INVALID_CREDENTIALS for a wrong
\* proof, no pending exchange remains for that account.
C5_ExchangeGoneAfterOneAnswer ==
    (/\ res.method = "createSession"
     /\ res.obs.call.pending
     /\ res.code \in {"OK", "INVALID_CREDENTIALS"})
        => ~Has(pendingAuths, res.obs.call.account)

\* C6: createSession for an account with no pending exchange is answered
\* INVALID_CREDENTIALS and changes nothing, and a successful createSession
\* leaves no pending exchange behind, so replaying it is rejected.
C6_NoPendingExchangeIsRejected ==
    [][\A x \in 1..MaxAccounts :
          Answered(x)
            => /\ ~Has(pendingAuths, x)
                    => /\ res'.code = "INVALID_CREDENTIALS"
                       /\ sessions' = sessions
                       /\ accounts' = accounts
                       /\ auths' = auths
                       /\ pendingAuths' = pendingAuths
               /\ res'.code = "OK" => ~Has(pendingAuths', x)]_vars

C6_Witness ==
    /\ res.method = "createSession"
    /\ res.code = "INVALID_CREDENTIALS"
    /\ ~res.obs.call.pending
    /\ res.obs.call.replay

\* C7: a successful initAuth stores a fresh exchange as the only pending
\* exchange of the account, replacing an earlier one; a createSession proof
\* computed against any exchange other than the pending one is rejected with
\* INVALID_CREDENTIALS and creates no session.
C7_LatestExchangeOnly ==
    [][\A x \in 1..MaxAccounts :
          /\ (res'.method = "initAuth" /\ res'.code = "OK" /\ res'.out.account = x)
                => /\ pendingAuths'[x].b = uuids'["exchange"]
                   /\ pendingAuths'[x].b = res'.out.B
                   /\ Has(pendingAuths, x) => pendingAuths'[x].b # pendingAuths[x].b
          /\ (Answered(x) /\ Has(pendingAuths, x)
                /\ res'.obs.call.M[3] # pendingAuths[x].b)
                => /\ res'.code = "INVALID_CREDENTIALS"
                   /\ sessions' = sessions
                   /\ accounts' = accounts]_vars

\* A proof against the first of two exchanges of one account, sent after the
\* second replaced it.
C7_Witness ==
    /\ res.method = "createSession"
    /\ res.code = "INVALID_CREDENTIALS"
    /\ sessions = <<>>
    /\ uuids["exchange"] = 2
    /\ DOMAIN pendingAuths = {res.obs.call.account}
    /\ pendingAuths[res.obs.call.account].b = 2
    /\ res.obs.call.M = <<"M1", pendingAuths[res.obs.call.account].v, 1, res.obs.call.A>>

\* ---------------------------------------------------------------- email tokens
\* Starting a login from trusted and untrusted devices, with and without a
\* verification token, for emails with and without an Auth record.
TokenRequestEmailVerification == RequestEmailVerification(Emails, {NoAuth}, {"d1"})

TokenInitAuth == InitAuth(Emails, TokenInputs, DeviceInputs)

NextInitAuth ==
    \/ TokenRequestEmailVerification
    \/ TokenInitAuth
    \/ DetachedTokenCheck

SpecInitAuth == Init /\ [][NextInitAuth]_vars

\* C3: initAuth demands a verification token exactly when the device is not
\* trusted: without a token it answers EMAIL_VERIFICATION_REQUIRED, with a
\* wrong token EMAIL_VERIFICATION_FAILED and stores no pending exchange, with
\* a valid token the verification record is consumed; a trusted device goes
\* on without a token and consumes no verification record.
C3_TokenDemandedWhenUntrusted ==
    [][res'.method = "initAuth" =>
         LET o == res'.obs.call
         IN  /\ (~o.trusted /\ o.token = "none")
                    => res'.code = "EMAIL_VERIFICATION_REQUIRED"
             /\ (~o.trusted /\ o.token = "invalid")
                    => /\ res'.code = "EMAIL_VERIFICATION_FAILED"
                       /\ pendingAuths' = pendingAuths
             /\ (~o.trusted /\ o.token = "valid")
                    => \/ ~Has(evs', o.email)
                       \/ <<o.email, o.verify>> \in detached'
             /\ o.trusted
                    => /\ res'.code = "OK"
                       /\ evs' = evs
                       /\ detached' = detached]_vars

\* C4: to a caller on an untrusted device without a valid token, initAuth's
\* answer does not tell whether an Auth record exists: it neither starts an
\* exchange nor answers NOT_FOUND; NOT_FOUND is only ever answered after a
\* valid token was presented.
C4_ExistenceHiddenWithoutToken ==
    /\ (res.method = "initAuth" /\ ~res.obs.call.trusted /\ res.obs.call.token # "valid")
            => res.code \notin {"OK", "NOT_FOUND"}
    /\ (res.method = "initAuth" /\ res.code = "NOT_FOUND")
            => res.obs.call.token = "valid"

\* ---------------------------------------------------------------- sessions
\* The store after the owner of email e has logged in from device d and got
\* a session with the given expiry.
Answer(r, d, expires) ==
    handle(r.S, Request("createSession",
                        [account |-> r.out.account, A |-> "A1",
                         M |-> srpM1(srpSetA(r.S.pendingAuths[r.out.account], "A1"))],
                        NoAuth, d),
           [NoRandom EXCEPT !.expires = expires]).S

Login(S, e, d, expires) ==
    Answer(handle(S, Request("initAuth", [email |-> e, verify |-> NoToken], NoAuth, d),
                  NoRandom),
           d, expires)

\* Both accounts hold a session; the first account's session expires.
LoggedIn == Login(Login(SignedUp, "e1", "d1", 1), "e2", "d1", NoExpiry)

InitSession == StartAt(LoggedIn)

SessionGetAccount == GetAccount(AuthInputs, {"d1"})

SessionRevokeSession == RevokeSession(AuthInputs, {"d1"})

SessionRequestEmailVerification == RequestEmailVerification({"e3"}, AuthInputs, {"d1"})

NextSession ==
    \/ SessionGetAccount
    \/ SessionRevokeSession
    \/ SessionRequestEmailVerification
    \/ Tick

SpecSession == InitSession /\ [][NextSession]_vars

\* C8: a request that names a session is checked in the order lookup,
\* expiry, signature: an unknown session id is answered INVALID_SESSION, a
\* known but expired session SESSION_EXPIRED, a known unexpired session with
\* a bad signature INVALID_REQUEST; on each of these failures no operation
\* runs and nothing stored changes.
C8_AuthenticationOrder ==
    [][res'.obs.auth.given =>
         LET o == res'.obs.auth
         IN  /\ ~o.known => res'.code = "INVALID_SESSION"
             /\ (o.known /\ o.expired) => res'.code = "SESSION_EXPIRED"
             /\ (o.known /\ ~o.expired /\ ~o.signed) => res'.code = "INVALID_REQUEST"
             /\ (~o.known \/ o.expired \/ ~o.signed)
                    => UNCHANGED <<auths, accounts, sessions, evs, vaults, orgs,
                                   attachments, pendingAuths, detached, revoking,
                                   outbox, uuids>>]_vars

\* An expired session named with a bad signature, on an operation that needs
\* no session.
C8_Witness ==
    /\ res.method = "requestEmailVerification"
    /\ res.code = "SESSION_EXPIRED"
    /\ res.obs.auth.known
    /\ ~res.obs.auth.signed
    /\ ~Has(evs, "e3")

\* ---------------------------------------------------------------- revisions
\* The auth field of a request signed with the key of session sid.
SignedBy(S, sid) == <<sid, S.sessions[sid].key>>

Member(id, email, role, assigned) ==
    [id |-> id, email |-> email, name |-> "n1", role |-> role, vaults |-> assigned]

\* Both accounts are logged in; the first has created an org with room for
\* two members, made itself its owner member and created a vault in it.
OrgCreated(S) ==
    handle(S, Request("createOrg",
                      [name |-> "n1", data |-> "x1", members |-> <<>>,
                       groups |-> <<>>, vaults |-> <<>>, invites |-> <<>>,
                       quota |-> [members |-> 2, groups |-> 1, vaults |-> 1, storage |-> 1]],
                      SignedBy(S, 1), "d1"),
           NoRandom).S

OwnerJoined(S) ==
    handle(S, Request("updateOrg",
                      [id |-> 1, name |-> "n1", data |-> "x1",
                       members |-> <<Member(1, "e1", "Owner", <<>>)>>,
                       groups |-> <<>>, vaults |-> <<>>, invites |-> <<>>,
                       revision |-> S.orgs[1].revision],
                      SignedBy(S, 1), "d1"),
           NoRandom).S

VaultCreated(S) ==
    handle(S, Request("createVault", [name |-> "n1", org |-> 1, data |-> "x1"],
                      SignedBy(S, 1), "d1"),
           NoRandom).S

WithOrg ==
    VaultCreated(OwnerJoined(OrgCreated(
        Login(Login(SignedUp, "e1", "d1", NoExpiry), "e2", "d1", NoExpiry))))

InitRev == StartAt(WithOrg)

\* The member lists the owner's client sends: the second account as admin or
\* as a member who may only read the org's vault, alone or next to an account
\* that does not exist.
RevMemberLists ==
    LET owner == Member(1, "e1", "Owner", <<>>)
        admin == Member(2, "e2", "Admin", <<>>)
        reader == Member(2, "e2", "Member", <<[id |-> 3, readonly |-> TRUE]>>)
        ghost == Member(3, "e3", "Member", <<>>)
    IN  {<<owner>>, <<owner, admin>>, <<owner, reader>>, <<admin, ghost>>,
         <<owner, admin, ghost>>}

RevUpdateAccount == UpdateAccount({"n2"}, SignedInputs, {"d1"}, WithOrg)

RevUpdateOrg == UpdateOrg({"n2"}, RevMemberLists, SignedInputs, {"d1"}, WithOrg)

RevUpdateVault == UpdateVault({"x2"}, SignedInputs, {"d1"}, WithOrg)

NextRev ==
    \/ RevUpdateAccount
    \/ RevUpdateOrg
    \/ RevUpdateVault

SpecRev == InitRev /\ [][NextRev]_vars

Updates == {"updateAccount", "updateOrg", "updateVault"}

\* The revision stored for the aggregate an update request names.
StoredRevision(method, id, as, os, vs) ==
    CASE method = "updateAccount" -> as[id].revision
      [] method = "updateOrg" -> os[id].revision
      [] method = "updateVault" -> vs[id].revision

\* Two account tables that differ at most in the session summaries.
SameButSessions(as, bs) ==
    /\ DOMAIN as = DOMAIN bs
    /\ \A a \in DOMAIN as :
          [as[a] EXCEPT !.sessions = <<>>] = [bs[a] EXCEPT !.sessions = <<>>]

StaleUpdate ==
    /\ res'.method \in Updates
    /\ res'.obs.call.exists
    /\ res'.obs.call.supplied # res'.obs.call.stored

CurrentUpdate ==
    /\ res'.method \in Updates
    /\ res'.obs.call.exists
    /\ res'.obs.call.permitted
    /\ res'.obs.call.supplied = res'.obs.call.stored

\* C9 as stated: an update request whose revision differs from the stored
\* one is answered OUTDATED_REVISION and leaves every stored Account, Org and
\* Vault as it was.
C9_StaleRevisionChangesNothing ==
    [][StaleUpdate
         => /\ res'.code = "OUTDATED_REVISION"
            /\ accounts' = accounts
            /\ orgs' = orgs
            /\ vaults' = vaults]_vars

\* C9: an update request whose revision differs from the stored one, from
\* a caller who for updateVault may read and write the vault, is answered
\* OUTDATED_REVISION; it leaves every Org and Vault as it was, and every
\* Account but for the session summary that authenticating the request
\* refreshes; nothing else is stored or sent.
C9_StaleRevisionRejected ==
    [][(StaleUpdate /\ (res'.method = "updateVault" => res'.obs.call.permitted))
         => /\ res'.code = "OUTDATED_REVISION"
            /\ SameButSessions(accounts', accounts)
            /\ orgs' = orgs
            /\ vaults' = vaults
            /\ UNCHANGED <<auths, evs, outbox, uuids, pendingAuths>>]_vars

\* The revision read at the start is sent after the aggregate was updated.
C9_Witness ==
    /\ res.method \in Updates
    /\ res.code = "OUTDATED_REVISION"
    /\ res.obs.call.supplied # NoId
    /\ res.obs.call.supplied =
            StoredRevision(res.method, res.obs.call.id, WithOrg.accounts, WithOrg.orgs,
                           WithOrg.vaults)
    /\ res.obs.call.stored = uuids["revision"]

Invite(id, email, accepted, by) ==
    [id |-> id, email |-> email, accepted |-> accepted, invitedBy |-> by]

\* The owner makes itself the owner member and the second account an admin,
\* and invites the second account's email.
BothJoined(S) ==
    handle(S, Request("updateOrg",
                      [id |-> 1, name |-> "n1", data |-> "x1",
                       members |-> <<Member(1, "e1", "Owner", <<>>),
                                     Member(2, "e2", "Admin", <<>>)>>,
                       groups |-> <<>>, vaults |-> <<>>,
                       invites |-> <<Invite(1, "e2", FALSE, "e1")>>,
                       revision |-> S.orgs[1].revision],
                      SignedBy(S, 1), "d1"),
           NoRandom).S

\* Both accounts are logged in; the first owns an org with a vault, the
\* second is an admin of it and holds an invite that it has not accepted.
WithAdmin ==
    VaultCreated(BothJoined(OrgCreated(
        Login(Login(SignedUp, "e1", "d1", NoExpiry), "e2", "d1", NoExpiry))))

InitOrg == StartAt(WithAdmin)

\* The member lists clients send: the second account as admin, as a member
\* who may only read the org's vault, as a member without a vault, not at
\* all, and replaced by two accounts that take the org over its quota.
OrgMemberLists ==
    LET owner == Member(1, "e1", "Owner", <<>>)
        admin == Member(2, "e2", "Admin", <<>>)
        reader == Member(2, "e2", "Member", <<[id |-> 3, readonly |-> TRUE]>>)
        plain == Member(2, "e2", "Member", <<>>)
        third == Member(3, "e3", "Member", <<>>)
        fourth == Member(4, "e3", "Member", <<>>)
    IN  {<<owner>>, <<owner, admin>>, <<owner, reader>>, <<owner, plain>>,
         <<owner, third, fourth>>}

\* Clients send the revision stored now, or none.
OrgUpdateAccount == UpdateAccount({"n2"}, SignedInputs, {"d1"}, Store)

OrgUpdateOrg == UpdateOrg({"n2"}, OrgMemberLists, SignedInputs, {"d1"}, Store)

\* A second invite, for an email without an account.
OrgUpdateOrgInvites ==
    UpdateOrgInvites({<<Invite(1, "e2", FALSE, "e1"), Invite(2, "e3", FALSE, "e1")>>},
                     SignedInputs, {"d1"})

OrgCreateVault == CreateVault({"n1"}, SignedInputs, {"d1"})

OrgDeleteVault == DeleteVault(SignedInputs, {"d1"})

OrgAcceptInvite ==
    AcceptInvite({[id |-> 1, org |-> 1, email |-> "e2", accepted |-> b, invitedBy |-> "e1"] :
                     b \in BOOLEAN},
                 SignedInputs, {"d1"})

NextOrg ==
    \/ OrgUpdateAccount
    \/ OrgUpdateOrg
    \/ OrgUpdateOrgInvites
    \/ OrgCreateVault
    \/ OrgDeleteVault
    \/ OrgAcceptInvite

SpecOrg == InitOrg /\ [][NextOrg]_vars

\* C11: a successful updateOrg, createVault, deleteVault, acceptInvite or
\* updateAccount (name propagation) or recoverAccount (suspension) that
\* changes a stored Org stores it under a revision other than the one it had.
C11_OrgChangeRenewsRevision ==
    [][(/\ res'.code = "OK"
        /\ res'.method \in {"updateOrg", "createVault", "deleteVault", "acceptInvite",
                            "updateAccount", "recoverAccount"})
         => \A o \in DOMAIN orgs \cap DOMAIN orgs' :
                orgs'[o] # orgs[o] => orgs'[o].revision # orgs[o].revision]_vars

\* What each account's orgs list holds.
OrgLinks == [a \in DOMAIN accounts |-> accounts[a].orgs]

\* An updateOrg request of an authenticated caller, not the org's owner, that
\* differs from the stored org by an added or removed member, an added invite
\* or a changed role.
NonOwnerMembershipChange ==
    /\ res'.method = "updateOrg"
    /\ res'.obs.caller # NoId
    /\ res'.obs.call.exists
    /\ res'.obs.call.diff
    /\ ~res'.obs.call.owner

\* C13 as stated: such a request is answered INSUFFICIENT_PERMISSIONS and
\* has no effect on the stored Org, the accounts' orgs lists, the Vaults, the
\* verification records and the messages sent.
C13_NonOwnerMembershipChangeForbidden ==
    [][NonOwnerMembershipChange
         => /\ res'.code = "INSUFFICIENT_PERMISSIONS"
            /\ UNCHANGED <<orgs, OrgLinks, vaults, evs, outbox>>]_vars

\* C13: such a request that supplies the stored revision is answered
\* INSUFFICIENT_PERMISSIONS, one that supplies another revision
\* OUTDATED_REVISION; neither has an effect on the stored Org, the accounts'
\* orgs lists, the Vaults, the verification records and the messages sent.
C13_NonOwnerMembershipChangeRejected ==
    [][NonOwnerMembershipChange
         => /\ res'.obs.call.supplied = res'.obs.call.stored
                    => res'.code = "INSUFFICIENT_PERMISSIONS"
            /\ res'.obs.call.supplied # res'.obs.call.stored
                    => res'.code = "OUTDATED_REVISION"
            /\ UNCHANGED <<orgs, OrgLinks, vaults, evs, outbox>>]_vars

\* An admin's request with the stored revision that changes another role.
C13_Witness ==
    /\ res.method = "updateOrg"
    /\ res.code = "INSUFFICIENT_PERMISSIONS"
    /\ res.obs.call.role = "Admin"
    /\ ~res.obs.call.owner
    /\ res.obs.call.diff
    /\ res.obs.call.supplied = res.obs.call.stored
    /\ Len(orgs[res.obs.call.id].members) = 2

\* An updateOrg request of an admin who is not the owner, with the stored
\* revision, the stored members with their stored roles, no new invite,
\* member and group counts within the quota, and another name than the
\* stored one.
AdminRename ==
    /\ res'.method = "updateOrg"
    /\ res'.obs.call.exists
    /\ res'.obs.call.hindrance = "none"
    /\ res'.obs.call.role = "Admin"
    /\ ~res'.obs.call.owner
    /\ ~res'.obs.call.diff
    /\ res'.obs.call.supplied = res'.obs.call.stored
    /\ res'.obs.call.name # orgs[res'.obs.call.id].name

\* C14 as stated: the request succeeds and the Org stored afterwards carries
\* the new name.
C14_AdminMayRename ==
    [][AdminRename
         => /\ res'.code = "OK"
            /\ orgs'[res'.obs.call.id].name = res'.obs.call.name]_vars

\* C14: the request succeeds and the Org is stored under a new revision, but
\* with the name it had: name, data and invites are taken from the owner's
\* requests only.
C14_AdminRenameIsIgnored ==
    [][AdminRename
         => /\ res'.code = "OK"
            /\ orgs'[res'.obs.call.id].revision # orgs[res'.obs.call.id].revision
            /\ orgs'[res'.obs.call.id].name = orgs[res'.obs.call.id].name
            /\ orgs'[res'.obs.call.id].invites = orgs[res'.obs.call.id].invites]_vars

C14_Witness ==
    /\ res.method = "updateOrg"
    /\ res.code = "OK"
    /\ res.obs.call.role = "Admin"
    /\ ~res.obs.call.owner
    /\ ~res.obs.call.diff
    /\ res.obs.call.name # orgs[res.obs.call.id].name
    /\ orgs[res.obs.call.id].revision = uuids["revision"]

\* ---------------------------------------------------------------- access
\* The owner gives the second account each role in turn; both accounts read
\* the org and read and write the three vaults.
AccessMemberLists ==
    LET owner == Member(1, "e1", "Owner", <<>>)
        assigned == <<[id |-> 3, readonly |-> TRUE]>>
    IN  {<<owner>>,
         <<owner, Member(2, "e2", "Admin", <<>>)>>,
         <<owner, Member(2, "e2", "Member", assigned)>>,
         <<owner, Member(2, "e2", "Member", <<>>)>>,
         <<owner, Member(2, "e2", "Suspended", assigned)>>}

AccessUpdateOrg == UpdateOrg({"n1"}, AccessMemberLists, SignedInputs, {"d1"}, Store)

AccessGetOrg == GetOrg({1, 2}, SignedInputs, {"d1"})

AccessGetVault == GetVault(1..3, SignedInputs, {"d1"})

AccessUpdateVault == UpdateVault({"x2"}, SignedInputs, {"d1"}, Store)

NextAccess ==
    \/ AccessUpdateOrg
    \/ AccessGetOrg
    \/ AccessGetVault
    \/ AccessUpdateVault

SpecAccess == InitOrg /\ [][NextAccess]_vars

\* C15: getVault and updateVault on a private vault of another account, or
\* on an org vault the org does not let the caller read, are answered
\* NOT_FOUND; getOrg by an account that is neither owner nor member of the
\* org is answered NOT_FOUND; updateVault on an org vault the caller can read
\* but not write is answered INSUFFICIENT_PERMISSIONS; in all these cases the
\* Vaults stay as stored; the owner of a private vault can read it.
C15_UnauthorizedAccessIsHidden ==
    [][LET c == res'.obs.caller
           id == res'.obs.call.id
       IN  /\ (res'.method \in {"getVault", "updateVault"} /\ c # NoId /\ Has(vaults, id))
                => /\ (vaults[id].org = NoId /\ vaults[id].owner # c)
                        => res'.code = "NOT_FOUND" /\ vaults' = vaults
                   /\ (vaults[id].org # NoId /\ ~canRead(orgs[vaults[id].org], id, c))
                        => res'.code = "NOT_FOUND" /\ vaults' = vaults
                   /\ (/\ res'.method = "updateVault"
                       /\ vaults[id].org # NoId
                       /\ canRead(orgs[vaults[id].org], id, c)
                       /\ ~canWrite(orgs[vaults[id].org], id, c))
                        => res'.code = "INSUFFICIENT_PERMISSIONS" /\ vaults' = vaults
                   /\ (/\ res'.method = "getVault"
                       /\ vaults[id].org = NoId
                       /\ vaults[id].owner = c)
                        => res'.code = "OK"
           /\ (res'.method = "getOrg" /\ c # NoId /\ Has(orgs, id))
                => ((orgs[id].owner # c /\ ~isMember(orgs[id], c))
                        => res'.code = "NOT_FOUND" /\ vaults' = vaults)]_vars

\* A member who may only read the org's vault tried to write it.
C15_Witness ==
    /\ res.method = "updateVault"
    /\ res.code = "INSUFFICIENT_PERMISSIONS"
    /\ res.obs.call.supplied = res.obs.call.stored
    /\ vaults[res.obs.call.id].org = 1
    /\ roleOf(orgs[1], res.obs.caller) = "Member"
    /\ canRead(orgs[1], res.obs.call.id, res.obs.caller)

\* ---------------------------------------------------------------- concurrent requests
\* The first account is logged in and owns an org with a vault; the second
\* account has signed up.
OwnerOnly ==
    VaultCreated(OwnerJoined(OrgCreated(Login(SignedUp, "e1", "d1", NoExpiry))))

InitRace == StartAt(OwnerOnly)

RaceUpdateAccount == BeginUpdateAccount({"x2", "x3"}, SignedInputs, {"d1"})

RaceUpdateOrg == BeginUpdateOrg({"n2"}, SignedInputs, {"d1"})

RaceUpdateVault == BeginUpdateVault({"x2", "x3"}, SignedInputs, {"d1"})

NextRace ==
    \/ RaceUpdateAccount
    \/ RaceUpdateOrg
    \/ RaceUpdateVault
    \/ End

SpecRace == InitRace /\ [][NextRace]_vars

\* C12: of the update requests for one aggregate that supply the same
\* revision at most one succeeds: a successful update that stores a new
\* revision replaces the very revision it supplied, never a revision that
\* another update stored in between.
C12_OneWriterPerRevision ==
    [][\A m \in Updates :
         (/\ res'.method = m
          /\ res'.code = "OK"
          /\ StoredRevision(m, res'.obs.call.id, accounts', orgs', vaults')
                # StoredRevision(m, res'.obs.call.id, accounts, orgs, vaults))
            => StoredRevision(m, res'.obs.call.id, accounts, orgs, vaults)
                    = res'.obs.call.supplied]_vars

\* ---------------------------------------------------------------- revoking sessions
\* Both accounts log in and revoke sessions while updateAccount requests are
\* under way.
RevokeUpdateAccount == BeginUpdateAccount({"x2"}, SignedInputs, {"d1"})

RevokeInitAuth == InitAuth({"e1", "e2"}, {NoToken}, {"d1"})

RevokeCreateSession == CreateSession({"d1"}, {NoExpiry})

RevokeRevokeSession == RevokeSession(SignedInputs, {"d1"})

NextRevoke ==
    \/ RevokeUpdateAccount
    \/ End
    \/ RevokeInitAuth
    \/ RevokeCreateSession
    \/ RevokeRevokeSession

SpecRevoke == InitRace /\ [][NextRevoke]_vars

\* The ids of the sessions an account's session list names.
Listed(as, a) == {as[a].sessions[i].id : i \in DOMAIN as[a].sessions}

\* C16: revokeSession(id) by an authenticated caller is answered
\* INSUFFICIENT_PERMISSIONS and removes nothing when the session belongs to
\* another account; otherwise it deletes the Session record with that id and
\* takes the entry with that id, and no other entry, off the caller's session
\* list, also when the list holds no entry with that id.
C16_RevokeRemovesExactlyThatSession ==
    [][(/\ res'.method = "revokeSession"
        /\ res'.obs.caller # NoId
        /\ Has(sessions, res'.obs.call.id))
         => LET c == res'.obs.caller
                id == res'.obs.call.id
            IN  IF sessions[id].account # c
                THEN /\ res'.code = "INSUFFICIENT_PERMISSIONS"
                     /\ DOMAIN sessions' = DOMAIN sessions
                     /\ \A a \in DOMAIN accounts : Listed(accounts, a) \subseteq Listed(accounts', a)
                ELSE /\ res'.code = "OK"
                     /\ DOMAIN sessions' = DOMAIN sessions \ {id}
                     /\ id \notin Listed(accounts', c)
                     /\ Listed(accounts, c) \ {id} \subseteq Listed(accounts', c)]_vars

\* ---------------------------------------------------------------- recovery
\* The accounts ask for a verification token and recover; the owner updates
\* the org's members; clients go on using the sessions they held at the
\* start.
RecoverMemberLists ==
    LET owner == Member(1, "e1", "Owner", <<>>)
    IN  {<<owner, Member(2, "e2", "Admin", <<>>)>>,
         <<owner, Member(3, "e3", "Member", <<>>), Member(4, "e3", "Member", <<>>)>>}

HeldSessions == {SignedBy(WithAdmin, sid) : sid \in DOMAIN WithAdmin.sessions}

RecoverRequestEmailVerification ==
    RequestEmailVerification({"e1", "e2"}, {NoAuth}, {"d1"})

RecoverRecoverAccount == RecoverAccount({"e1", "e2"}, TokenInputs, {NoAuth}, {"d1"})

RecoverUpdateOrg == UpdateOrg({"n1"}, RecoverMemberLists, {SignedBy(WithAdmin, 1)}, {"d1"}, Store)

RecoverGetAccount == GetAccount(HeldSessions, {"d1"})

NextRecover ==
    \/ RecoverRequestEmailVerification
    \/ RecoverRecoverAccount
    \/ DetachedSessionDelete
    \/ RecoverUpdateOrg
    \/ RecoverGetAccount

SpecRecover == InitOrg /\ [][NextRecover]_vars

\* C17: once recoverAccount for an account has succeeded, no Session record
\* that belonged to the account when the request arrived is stored any more.
C17_RecoveryLeavesNoSession ==
    (res.method = "recoverAccount" /\ res.code = "OK")
        => \A sid \in res.obs.call.sessions : ~Has(sessions, sid)

\* C18: a successful recoverAccount for an account sets its role to Suspended
\* in every Org of which it is a member and not the owner, and leaves its role
\* in the Orgs it owns and the roles of all other members as they were.
C18_RecoverySuspendsMemberships ==
    [][(res'.method = "recoverAccount" /\ res'.code = "OK")
         => \A o \in DOMAIN orgs :
               /\ Has(orgs', o)
               /\ Len(orgs'[o].members) = Len(orgs[o].members)
               /\ \A i \in DOMAIN orgs[o].members :
                     /\ orgs'[o].members[i].id = orgs[o].members[i].id
                     /\ orgs'[o].members[i].role =
                            IF /\ orgs[o].members[i].id = res'.obs.call.account
                               /\ orgs[o].owner # res'.obs.call.account
                            THEN "Suspended"
                            ELSE orgs[o].members[i].role]_vars

\* ---------------------------------------------------------------- updateAuth
\* C19: updateAuth stores the Auth record exactly when the request is signed
\* with a session of the account whose email is that of the record; a request
\* without a valid session is answered INVALID_SESSION, one of an account
\* with another email INSUFFICIENT_PERMISSIONS, and a failed request leaves
\* the stored Auth records as they were.
C19_UpdateAuthOnlyByOwnEmail ==
    [][res'.method = "updateAuth"
         => LET caller == res'.obs.caller
                auth == res'.obs.call
                own == caller # NoId /\ accounts[caller].email = auth.email
            IN  /\ caller = NoId => res'.code = "INVALID_SESSION"
                /\ caller # NoId /\ ~own => res'.code = "INSUFFICIENT_PERMISSIONS"
                /\ own => /\ res'.code = "OK"
                          /\ auths' = Save(auths, auth.email,
                                [account |-> auth.account, verifier |-> auth.verifier,
                                 trustedDevices |-> auth.trustedDevices])
                /\ res'.code # "OK" => auths' = auths]_vars

\* An account signed in under one email was refused the Auth record stored
\* for the other email.
C19_Witness ==
    /\ res.method = "updateAuth"
    /\ res.code = "INSUFFICIENT_PERMISSIONS"
    /\ res.obs.caller # NoId
    /\ Has(auths, res.obs.call.email)
    /\ auths[res.obs.call.email].verifier # res.obs.call.verifier

\* ---------------------------------------------------------------- verification codes
\* Clients ask for verification codes and send codes back: the code of the
\* message in either case, or another one.
InitVerify == StartAt(EmptyStore)

VerifyRequestEmailVerification == RequestEmailVerification({"e1", "e2"}, {NoAuth}, {"d1"})

VerifyCompleteEmailVerification ==
    CompleteEmailVerification({"e1", "e2"}, {"c1", "C1", "c2"}, {"d1"})

NextVerify ==
    \/ VerifyRequestEmailVerification
    \/ VerifyCompleteEmailVerification

SpecVerify == InitVerify /\ [][NextVerify]_vars

\* C20: the fifth wrong code in a row for a verification record destroys the
\* record, and an attempt made after five wrong codes, the right code
\* included, is answered EMAIL_VERIFICATION_TRIES_EXCEEDED.
C20_FiveWrongCodesDestroyRecord ==
    [][res'.method = "completeEmailVerification"
         => LET call == res'.obs.call
            IN  /\ (call.exists /\ ~call.right /\ call.tries = MaxTries - 1)
                       => ~Has(evs', call.email)
                /\ call.tries >= MaxTries
                       => res'.code = "EMAIL_VERIFICATION_TRIES_EXCEEDED"]_vars

SignupRequestEmailVerification == RequestEmailVerification({"e1", "e2"}, {NoAuth}, {"d1"})

SignupCreateAccount == CreateAccount({"e1", "e2"}, {"d1"})

SignupRecoverAccount == RecoverAccount({"e1", "e2"}, TokenInputs, {NoAuth}, {"d1"})

NextSignup ==
    \/ SignupRequestEmailVerification
    \/ SignupCreateAccount
    \/ SignupRecoverAccount

SpecSignup == InitVerify /\ [][NextSignup]_vars

\* The request presents a token for an email.
Presents(r) == r.method \in {"createAccount", "recoverAccount"}

\* C22: the token check of createAccount and recoverAccount passes exactly
\* when a verification record for the email is stored and holds the token
\* presented; a check that passes deletes that record and no other, one that
\* fails answers EMAIL_VERIFICATION_FAILED and leaves all records as they
\* were; the token presented again right after a check it passed fails.
C22_TokenIsSingleUse ==
    [][Presents(res')
         => LET email == res'.obs.call.email
                token == res'.obs.call.token
                valid == Has(evs, email) /\ evs[email].token = token
            IN  /\ ~valid => res'.code = "EMAIL_VERIFICATION_FAILED" /\ evs' = evs
                /\ valid => /\ res'.code # "EMAIL_VERIFICATION_FAILED"
                            /\ evs' = Delete(evs, email)
                /\ (/\ Presents(res)
                    /\ res.code # "EMAIL_VERIFICATION_FAILED"
                    /\ res.obs.call.email = email
                    /\ res.obs.call.token = token)
                       => res'.code = "EMAIL_VERIFICATION_FAILED"]_vars

\* The token that created the account of an email is presented once more
\* and refused.
C22_Witness ==
    /\ res.method = "createAccount"
    /\ res.code = "EMAIL_VERIFICATION_FAILED"
    /\ res.obs.call.token # NoToken
    /\ res.obs.call.token < uuids["token"]
    /\ ~Has(evs, res.obs.call.email)
    /\ \E a \in DOMAIN accounts : accounts[a].email = res.obs.call.email

OrgQuotas ==
    {[members |-> 2, groups |-> 1, vaults |-> 1, storage |-> 1],
     [members |-> Unlimited, groups |-> Unlimited, vaults |-> Unlimited,
      storage |-> Unlimited]}

OrgCreatedWith(S, quota) ==
    handle(S, Request("createOrg",
                      [name |-> "n1", data |-> "x1", members |-> <<>>,
                       groups |-> <<>>, vaults |-> <<>>, invites |-> <<>>,
                       quota |-> quota],
                      SignedBy(S, 1), "d1"),
           NoRandom).S

BothLoggedIn == Login(Login(SignedUp, "e1", "d1", NoExpiry), "e2", "d1", NoExpiry)

InitQuota == \E quota \in OrgQuotas : StartAt(OrgCreatedWith(BothLoggedIn, quota))

QuotaMemberLists ==
    LET owner == Member(1, "e1", "Owner", <<>>)
        admin == Member(2, "e2", "Admin", <<>>)
        third == Member(3, "e3", "Member", <<>>)
    IN  {<<owner>>, <<owner, admin>>, <<owner, admin, third>>}

Group(name) == [name |-> name, members |-> <<>>, vaults |-> <<>>]

QuotaGroupLists == {<<>>, <<Group("n1")>>, <<Group("n1"), Group("n2")>>}

QuotaUpdateOrg == UpdateOrgCounts(QuotaMemberLists, QuotaGroupLists, SignedInputs, {"d1"})

QuotaCreateVault == CreateVault({"n1"}, SignedInputs, {"d1"})

NextQuota ==
    \/ QuotaUpdateOrg
    \/ QuotaCreateVault

SpecQuota == InitQuota /\ [][NextQuota]_vars

\* C24: createVault by an admin of the org is answered QUOTA_EXCEEDED when
\* the org would hold more vaults than quota.vaults and succeeds otherwise,
\* and a createVault answered QUOTA_EXCEEDED leaves the stored Orgs and Vaults
\* as they were; updateOrg is answered QUOTA_EXCEEDED only for a member count
\* above quota.members or a group count above quota.groups, and an update
\* that comes to the quota check with such a count is answered so; a quota
\* of -1 sets no limit.
C24_QuotaBoundaries ==
    [][/\ res'.method = "createVault"
          => LET o == res'.obs.call.org
                 caller == res'.obs.caller
                 over == /\ orgs[o].quota.vaults # -1
                         /\ Len(orgs[o].vaults) + 1 > orgs[o].quota.vaults
             IN  /\ (caller # NoId /\ Has(orgs, o) /\ isAdmin(orgs[o], caller))
                       => res'.code = IF over THEN "QUOTA_EXCEEDED" ELSE "OK"
                 /\ res'.code = "QUOTA_EXCEEDED"
                       => over /\ orgs' = orgs /\ vaults' = vaults
       /\ res'.method = "updateOrg"
          => LET call == res'.obs.call
                 quota == orgs[call.id].quota
                 over == \/ quota.members # -1 /\ call.members > quota.members
                         \/ quota.groups # -1 /\ call.groups > quota.groups
                 reached == /\ call.exists
                            /\ call.supplied = call.stored
                            /\ call.permitted
                            /\ \A i \in DOMAIN orgs[call.id].members :
                                  Has(accounts, orgs[call.id].members[i].id)
             IN  /\ res'.code = "QUOTA_EXCEEDED" => over
                 /\ res'.code = "OK" => ~over
                 /\ reached /\ over => res'.code = "QUOTA_EXCEEDED"]_vars

\* An org with as many members and groups as its quota allows, stored by an
\* updateOrg, holds as many vaults as its quota allows, and a further
\* createVault has just been answered QUOTA_EXCEEDED.
C24_Witness ==
    /\ res.method = "createVault"
    /\ res.code = "QUOTA_EXCEEDED"
    /\ Has(orgs, res.obs.call.org)
    /\ LET org == orgs[res.obs.call.org]
       IN  /\ Len(org.vaults) = org.quota.vaults
           /\ Len(org.members) = org.quota.members
           /\ Len(org.groups) = org.quota.groups

\* ---------------------------------------------------------------- org ownership
\* Both accounts are logged in; they create orgs, named or not, and make
\* themselves and each other members of them.
InitOwner == StartAt(BothLoggedIn)

OwnerCreateOrg ==
    CreateOrg({"n1", ""}, {[members |-> 2, groups |-> 1, vaults |-> 1, storage |-> 1]},
              {NoAuth} \cup SignedInputs, {"d1"})

OwnerMemberLists ==
    {<<Member(1, "e1", "Owner", <<>>)>>,
     <<Member(1, "e1", "Owner", <<>>), Member(2, "e2", "Admin", <<>>)>>}

OwnerUpdateOrg == UpdateOrgCounts(OwnerMemberLists, {<<>>}, SignedInputs, {"d1"})

NextOwner ==
    \/ OwnerCreateOrg
    \/ OwnerUpdateOrg

SpecOwner == InitOwner /\ [][NextOwner]_vars

\* The stored Orgs whose owner is the account.
Owned(a) == {o \in DOMAIN orgs : orgs[o].owner = a}

\* C25: no account owns more stored Orgs than its quota.orgs, unless that
\* quota is -1.
C25_OwnedOrgsWithinQuota ==
    \A a \in DOMAIN accounts :
        \/ accounts[a].quota.orgs = -1
        \/ Cardinality(Owned(a)) <= accounts[a].quota.orgs

\* ---------------------------------------------------------------- storage quota
\* Both accounts are logged in, the first owns an org with a vault; clients
\* store attachments of half a unit and a quarter of a unit of quota in the
\* org's vault and in their private vaults.
AttachmentSizes == {Giga \div 2, Giga \div 4}

StoreCreateAttachment == BeginCreateAttachment(AttachmentSizes, SignedInputs, {"d1"})

NextStore ==
    \/ StoreCreateAttachment
    \/ End

SpecStore == InitRev /\ [][NextStore]_vars

\* C26: the attachments stored in the vaults of an org with a storage quota
\* other than -1 never add up to more than quota.storage * 1e9 bytes, and
\* neither do those of a private vault against its owner's quota.
C26_StorageWithinQuota ==
    /\ \A o \in DOMAIN orgs :
          \/ orgs[o].quota.storage = -1
          \/ usageOf(attachments, orgs[o].vaults, 1) <= orgs[o].quota.storage * Giga
    /\ \A v \in DOMAIN vaults :
          \/ vaults[v].org # NoId
          \/ accounts[vaults[v].owner].quota.storage = -1
          \/ getUsage(attachments, v) <= accounts[vaults[v].owner].quota.storage * Giga

\* ---------------------------------------------------------------- private vaults
\* One account has signed up, logged in and created an org with a vault.
\* Clients sign up and recover accounts, and create and delete vaults, the
\* private ones included.
OneOwner ==
    VaultCreated(OwnerJoined(OrgCreated(
        Login(SignUp(EmptyStore, "e1", "v1", "d1"), "e1", "d1", NoExpiry))))

InitVaults == StartAt(OneOwner)

VaultsRequestEmailVerification == RequestEmailVerification({"e1", "e2"}, {NoAuth}, {"d1"})

VaultsCreateAccount == CreateAccount({"e1", "e2"}, {"d1"})

VaultsRecoverAccount == RecoverAccount({"e1", "e2"}, TokenInputs, {NoAuth}, {"d1"})

VaultsCreateVault == CreateVaultIn({NoId, 1}, {"n1"}, SignedInputs, {"d1"})

VaultsDeleteVault == DeleteVault(SignedInputs, {"d1"})

NextVaults ==
    \/ VaultsRequestEmailVerification
    \/ VaultsCreateAccount
    \/ VaultsRecoverAccount
    \/ DetachedSessionDelete
    \/ VaultsCreateVault
    \/ VaultsDeleteVault

SpecVaults == InitVaults /\ [][NextVaults]_vars

\* The stored vaults that are the account's own: it is the owner, no org.
PrivateVaults(a) == {v \in DOMAIN vaults : vaults[v].owner = a /\ vaults[v].org = NoId}

OnePrivateVaultEach == \A a \in DOMAIN accounts : PrivateVaults(a) = {accounts[a].mainVault}

\* C27: every account has exactly one private vault, the one its mainVault
\* names; createVault without an org is answered BAD_REQUEST and deleteVault
\* of a private vault INSUFFICIENT_PERMISSIONS, and neither changes what is
\* stored; recoverAccount stores the account's private vault anew under the
\* id it had.
C27_OnePrivateVault ==
    /\ []OnePrivateVaultEach
    /\ [][/\ (res'.method = "createVault" /\ res'.obs.caller # NoId
                 /\ res'.obs.call.org = NoId)
             => /\ res'.code = "BAD_REQUEST"
                /\ UNCHANGED <<vaults, orgs, attachments, auths, evs>>
          /\ (res'.method = "deleteVault" /\ res'.obs.caller # NoId
                 /\ Has(vaults, res'.obs.call.id) /\ vaults[res'.obs.call.id].org = NoId)
             => /\ res'.code = "INSUFFICIENT_PERMISSIONS"
                /\ UNCHANGED <<vaults, orgs, attachments, auths, evs>>
          /\ (res'.method = "recoverAccount" /\ res'.code = "OK")
             => /\ accounts'[res'.obs.call.account].mainVault =
                       accounts[res'.obs.call.account].mainVault
                /\ DOMAIN vaults' = DOMAIN vaults]_vars

\* Two accounts exist, one of them has just been recovered, and each has
\* its private vault.
C27_Witness ==
    /\ res.method = "recoverAccount"
    /\ res.code = "OK"
    /\ Cardinality(DOMAIN accounts) = 2
    /\ \A a \in DOMAIN accounts : Has(vaults, accounts[a].mainVault)

\* C28: every stored Vault has an owner or an org, and not both.
C28_OwnerOrOrg ==
    \A v \in DOMAIN vaults : (vaults[v].owner # NoId) # (vaults[v].org # NoId)

\* ---------------------------------------------------------------- saves that fail
\* Clients verify their addresses and sign up while the storage may refuse
\* any of the saves of a sign-up.
PersistRequestEmailVerification == RequestEmailVerification({"e1", "e2"}, {NoAuth}, {"d1"})

PersistCreateAccount ==
    CreateAccountFailing({"e1", "e2"}, {"d1"}, SUBSET {"account", "vault", "auth"})

NextPersist ==
    \/ PersistRequestEmailVerification
    \/ PersistCreateAccount

SpecPersist == InitVerify /\ [][NextPersist]_vars

\* C29: of the Account, the private Vault and the Auth record of a sign-up,
\* all three are stored or none is: every stored account has its vault and an
\* Auth record that names it, every stored private vault its account, every
\* Auth record its account.
C29_SignUpAllOrNothing ==
    /\ \A a \in DOMAIN accounts :
          /\ Has(vaults, accounts[a].mainVault)
          /\ \E e \in DOMAIN auths : auths[e].account = a
    /\ \A v \in DOMAIN vaults : vaults[v].org = NoId => Has(accounts, vaults[v].owner)
    /\ \A e \in DOMAIN auths : Has(accounts, auths[e].account)

\* ---------------------------------------------------------------- invites
\* The owner invites the second account or the third email and changes the
\* second account's role; the accounts look at invites and accept them,
\* naming the inviter or not.
InviteLists ==
    {<<Invite(1, "e2", FALSE, "e1")>>,
     <<Invite(1, "e2", FALSE, "e1"), Invite(2, "e3", FALSE, "e1")>>}

InviteMemberLists ==
    {<<Member(1, "e1", "Owner", <<>>), Member(2, "e2", "Admin", <<>>)>>,
     <<Member(1, "e1", "Admin", <<>>), Member(2, "e2", "Owner", <<>>)>>}

InviteUpdateOrg == UpdateOrg({"n1"}, InviteMemberLists, SignedInputs, {"d1"}, Store)

InviteUpdateOrgInvites == UpdateOrgInvites(InviteLists, SignedInputs, {"d1"})

InviteGetInvite == GetInvite({1, 2}, {1, 2, 3}, {NoAuth} \cup SignedInputs, {"d1"})

InviteAcceptInvite ==
    AcceptInvite({[id |-> i, org |-> 1, email |-> e, accepted |-> b, invitedBy |-> by] :
                     i \in {1, 2}, e \in {"e2", "e3"}, b \in BOOLEAN, by \in {"e1", ""}},
                 {NoAuth} \cup SignedInputs, {"d1"})

NextInvite ==
    \/ InviteUpdateOrg
    \/ InviteUpdateOrgInvites
    \/ InviteGetInvite
    \/ InviteAcceptInvite

SpecInvite == InitOrg /\ [][NextInvite]_vars

\* The stored invite a getInvite or acceptInvite request names, 0 for none.
Named(call) == IF Has(orgs, call.org) THEN getInvite(orgs[call.org], call.id) ELSE 0

\* C30: getInvite answers with the invite only for an owner of the org or
\* the account whose email the invite carries, and NOT_FOUND for any other
\* account; acceptInvite succeeds only for the account whose email the stored
\* invite carries and is answered INSUFFICIENT_PERMISSIONS without a change
\* of the Org for any other; accepting an invite stored as not accepted
\* sends the inviter the notification, accepting one stored as accepted
\* sends nothing.
C30_InviteAccess ==
    [][/\ (res'.method = "getInvite" /\ res'.obs.caller # NoId)
          => LET call == res'.obs.call
                 caller == res'.obs.caller
                 k == Named(call)
                 may == /\ k # 0
                        /\ \/ orgs[call.org].owner = caller
                           \/ roleOf(orgs[call.org], caller) = "Owner"
                           \/ orgs[call.org].invites[k].email = accounts[caller].email
             IN  /\ res'.code = "OK" => may
                 /\ ~may => res'.code = "NOT_FOUND"
       /\ (/\ res'.method = "acceptInvite"
           /\ res'.obs.caller # NoId
           /\ res'.obs.call.accepted
           /\ Named(res'.obs.call) # 0)
          => LET call == res'.obs.call
                 stored == orgs[call.org].invites[Named(call)]
                 own == stored.email = accounts[res'.obs.caller].email
             IN  /\ res'.code = "OK" => own
                 /\ ~own => res'.code = "INSUFFICIENT_PERMISSIONS" /\ orgs' = orgs
                 /\ res'.code = "OK"
                       => outbox' = IF stored.accepted THEN outbox
                                    ELSE outbox \cup {<<stored.invitedBy, "InviteAccepted">>}]_vars

\* ---------------------------------------------------------------- invite scenario
\* The owner of an org invites the email e2, which has no account yet; its
\* holder signs up with the token of the invite link, logs in and accepts
\* the invite; the owner puts the new account on the member list.
ScenarioInvite == UpdateOrgInvites({<<Invite(1, "e2", FALSE, "e1")>>}, SignedInputs, {"d1"})

ScenarioCreateAccount == CreateAccount({"e2"}, {"d1"})

ScenarioInitAuth == InitAuth({"e2"}, {NoToken}, {"d1"})

ScenarioCreateSession == CreateSession({"d1"}, {NoExpiry})

ScenarioAcceptInvite ==
    AcceptInvite({[id |-> 1, org |-> 1, email |-> "e2", accepted |-> TRUE, invitedBy |-> by] :
                     by \in {"e1", ""}},
                 SignedInputs, {"d1"})

ScenarioMemberLists ==
    {<<Member(1, "e1", "Owner", <<>>)>>,
     <<Member(1, "e1", "Owner", <<>>), Member(2, "e2", "Member", <<>>)>>}

ScenarioUpdateOrg == UpdateOrgCounts(ScenarioMemberLists, {<<>>}, SignedInputs, {"d1"})

NextScenario ==
    \/ ScenarioInvite
    \/ ScenarioCreateAccount
    \/ ScenarioInitAuth
    \/ ScenarioCreateSession
    \/ ScenarioAcceptInvite
    \/ ScenarioUpdateOrg

SpecScenario == InitVaults /\ [][NextScenario]_vars

Accepting == res'.method = "acceptInvite" /\ res'.code = "OK"

MemberIds(org) == {org.members[i].id : i \in DOMAIN org.members}

C32_AuthBoundToOwnAccount ==
    \A e \in DOMAIN auths :
        /\ Has(accounts, auths[e].account)
        /\ accounts[auths[e].account].email = e


\* C33: createAccount stores the Auth record under the email whose token it
\* checked: no Auth record of another email appears, no stored Auth record
\* changes, and a request for which an Auth record exists is answered
\* ACCOUNT_EXISTS and stores no Account, Vault or Auth.
C33_AuthUnderVerifiedEmail ==
    [][res'.method = "createAccount"
         => LET call == res'.obs.call
            IN  /\ DOMAIN auths' \ DOMAIN auths \subseteq {call.email}
                /\ \A e \in DOMAIN auths : auths'[e] = auths[e]
                /\ (Has(auths, call.auth) /\ res'.code # "EMAIL_VERIFICATION_FAILED")
                      => /\ res'.code = "ACCOUNT_EXISTS"
                         /\ UNCHANGED <<accounts, vaults, auths>>]_vars


\* ---------------------------------------------------------------- concurrent logins
\* Both accounts have signed up.  Exchanges are negotiated and answered;
\* createSession requests overtake one another between the check of the
\* proof and the saves.
RaceInitAuth == InitAuth({"e1", "e2"}, {NoToken}, {"d1"})

RaceCreateSession == BeginCreateSession({"d1"}, {NoExpiry})

NextLogin ==
    \/ RaceInitAuth
    \/ RaceCreateSession
    \/ EndCreateSession

SpecLogin == Init /\ [][NextLogin]_vars

\* C34: one negotiated exchange gives at most one Session (the key of a
\* Session is derived from the server's value of its exchange, so no two
\* stored Sessions have the same key), and every stored Session is on the
\* session list of its account, also when createSession requests with the
\* valid proof are handled concurrently.
C34_OneSessionPerExchange ==
    /\ \A s1, s2 \in DOMAIN sessions :
           sessions[s1].key = sessions[s2].key => s1 = s2
    /\ \A s1 \in DOMAIN sessions :
           s1 \in Listed(accounts, sessions[s1].account)


\* ---------------------------------------------------------------- revoked sessions
\* The first account is logged in, the second logs in; sessions are revoked
\* while getAccount requests signed with them are under way.
StaleInitAuth == InitAuth({"e1", "e2"}, {NoToken}, {"d1"})

StaleCreateSession == CreateSession({"d1"}, {NoExpiry})

StaleGetAccount == BeginGetAccount(SignedInputs, {"d1"})

StaleRevokeSession == RevokeSession(SignedInputs, {"d1"})

NextStale ==
    \/ StaleInitAuth
    \/ StaleCreateSession
    \/ StaleGetAccount
    \/ EndGetAccount
    \/ StaleRevokeSession

SpecStale == InitRace /\ [][NextStale]_vars

\* C35: once revokeSession(id) has completed, no Session with that id is
\* stored and no account's session list names it, in every later state,
\* also when a request signed with that session was under way during the
\* revocation.  Session ids are issued once and only revokeSession deletes
\* a Session here, so an issued id with no stored Session is a revoked one:
\* no step stores it or lists it again.
C35_RevokedStaysRevoked ==
    [][\A id \in 1..uuids["session"] :
          ~Has(sessions, id)
             => /\ ~Has(sessions', id)
                /\ \A a \in DOMAIN accounts' : id \notin Listed(accounts', a)]_vars


\* ---------------------------------------------------------------- session lists
\* C36: every entry of a stored Account's session list names a stored
\* Session of that account, once the deletes a recovery started have landed;
\* after recoverAccount the list holds no entry for a deleted session.
C36_ListedSessionsExist ==
    revoking = {}
        => \A a \in DOMAIN accounts :
               \A id \in Listed(accounts, a) :
                   Has(sessions, id) /\ sessions[id].account = a


\* ---------------------------------------------------------------- membership links
\* Both accounts are logged in.  The first creates orgs, with a member list
\* or without, and puts members on the lists and takes them off.
LinksMemberLists ==
    {<<>>,
     <<Member(1, "e1", "Owner", <<>>)>>,
     <<Member(1, "e1", "Owner", <<>>), Member(2, "e2", "Member", <<>>)>>}

LinksCreateOrg ==
    CreateOrgWith({"n1"}, {<<>>, <<Member(1, "e1", "Owner", <<>>)>>},
                  {[members |-> 2, groups |-> 1, vaults |-> 1, storage |-> 1]},
                  {SignedBy(BothLoggedIn, 1)}, {"d1"})

LinksUpdateOrg ==
    UpdateOrgCounts(LinksMemberLists, {<<>>}, {SignedBy(BothLoggedIn, 1)}, {"d1"})

NextLinks ==
    \/ LinksCreateOrg
    \/ LinksUpdateOrg

SpecLinks == InitOwner /\ [][NextLinks]_vars

\* How often the org is on the account's orgs list.
LinkCount(a, o) == Cardinality({i \in DOMAIN accounts[a].orgs : accounts[a].orgs[i] = o})

\* C37: an Org is on a stored Account's orgs list exactly when the account is
\* on the stored Org's member list, and at most once; this holds after
\* updateOrg requests that add and remove members and after createOrg
\* requests that come with a member list.
C37_LinksMatchMembers ==
    \A a \in DOMAIN accounts :
        \A o \in DOMAIN orgs :
            LinkCount(a, o) = IF isMember(orgs[o], a) THEN 1 ELSE 0


\* ---------------------------------------------------------------- deleting vaults
\* The owner gives the second account a role and the org's vault to it and
\* to a group and puts attachments into the vaults; both accounts delete
\* vaults.
DeleteMemberLists ==
    LET owner == Member(1, "e1", "Owner", <<>>)
        assigned == <<[id |-> 3, readonly |-> FALSE]>>
    IN  {<<owner, Member(2, "e2", "Admin", assigned)>>,
         <<owner, Member(2, "e2", "Member", assigned)>>,
         <<owner, Member(2, "e2", "Member", <<>>)>>}

DeleteGroupLists ==
    {<<>>,
     <<[name |-> "n1", members |-> <<>>, vaults |-> <<[id |-> 3, readonly |-> FALSE]>>]>>}

DeleteUpdateOrg ==
    UpdateOrgCounts(DeleteMemberLists, DeleteGroupLists, {SignedBy(WithAdmin, 1)}, {"d1"})

DeleteCreateAttachment ==
    BeginCreateAttachment({Giga \div 4}, {SignedBy(WithAdmin, 1)}, {"d1"})

DeleteDeleteVault == DeleteVault(SignedInputs, {"d1"})

NextDelete ==
    \/ DeleteUpdateOrg
    \/ DeleteCreateAttachment
    \/ End
    \/ DeleteDeleteVault

SpecDelete == InitOrg /\ [][NextDelete]_vars

\* The vault is assigned to no member and no group of the org.
Unassigned(org, id) ==
    /\ \A i \in DOMAIN org.members :
           \A k \in DOMAIN org.members[i].vaults : org.members[i].vaults[k].id # id
    /\ \A i \in DOMAIN org.groups :
           \A k \in DOMAIN org.groups[i].vaults : org.groups[i].vaults[k].id # id

\* C38: deleteVault on a vault of an org, by an admin of the org, deletes the
\* Vault and all attachments of the vault and takes the vault off the org's
\* vault index and off the assignments of every member and group; by a
\* caller who is no admin it is answered INSUFFICIENT_PERMISSIONS and
\* deletes nothing.
C38_DeleteVaultCascades ==
    [][(/\ res'.method = "deleteVault"
        /\ res'.obs.caller # NoId
        /\ Has(vaults, res'.obs.call.id)
        /\ vaults[res'.obs.call.id].org # NoId)
         => LET id == res'.obs.call.id
                o == vaults[id].org
            IN  IF isAdmin(orgs[o], res'.obs.caller)
                THEN /\ res'.code = "OK"
                     /\ vaults' = Delete(vaults, id)
                     /\ \A k \in DOMAIN attachments' : attachments'[k].vault # id
                     /\ \A k \in DOMAIN attachments :
                            attachments[k].vault # id
                               => Has(attachments', k) /\ attachments'[k] = attachments[k]
                     /\ IdIndex(orgs'[o].vaults, id) = 0
                     /\ Unassigned(orgs'[o], id)
                ELSE /\ res'.code = "INSUFFICIENT_PERMISSIONS"
                     /\ UNCHANGED <<vaults, attachments, orgs>>]_vars

\* An admin who is not the owner has deleted a vault that a member and a
\* group held and that had an attachment.
C38_Witness ==
    /\ res.method = "deleteVault"
    /\ res.code = "OK"
    /\ res.obs.caller = 2
    /\ res.obs.call.holders = 2
    /\ res.obs.call.stored >= 1
    /\ ~Has(vaults, res.obs.call.id)


\* ---------------------------------------------------------------- trusted devices
\* An account is signed up, logged in to, used and recovered from the one
\* device; the Auth record a recovery sends lists no device, or that device
\* once.
DevicesRequestEmailVerification == RequestEmailVerification({"e1"}, {NoAuth}, {"d1"})

DevicesCreateAccount == CreateAccount({"e1"}, {"d1"})

DevicesInitAuth == InitAuth({"e1"}, {NoToken}, {"d1"})

DevicesCreateSession == CreateSession({"d1"}, {NoExpiry})

DevicesGetAccount == GetAccount(SignedInputs, {"d1"})

DevicesRecoverAccount == RecoverAccountTrusting({"e1"}, DeviceLists, TokenInputs, {"d1"})

NextDevices ==
    \/ DevicesRequestEmailVerification
    \/ DevicesCreateAccount
    \/ DevicesInitAuth
    \/ DevicesCreateSession
    \/ DevicesGetAccount
    \/ DevicesRecoverAccount
    \/ DetachedSessionDelete

SpecDevices == InitVerify /\ [][NextDevices]_vars

NoDuplicates(seq) == \A i, j \in DOMAIN seq : seq[i] = seq[j] => i = j

\* C39: the trusted devices of every Auth record hold each device at most
\* once and the session list of every Account holds each session id at most
\* once, whatever sign-up, login, authenticated requests and recovery have
\* added; after a successful createSession from a device, the device is on
\* the trusted devices of the account's Auth record.
C39_NoDuplicateEntries ==
    /\ \A e \in DOMAIN auths : NoDuplicates(auths[e].trustedDevices)
    /\ \A a \in DOMAIN accounts :
           NoDuplicates([i \in DOMAIN accounts[a].sessions |-> accounts[a].sessions[i].id])
    /\ (res.method = "createSession" /\ res.code = "OK")
           => Contains(auths[accounts[res.obs.call.account].email].trustedDevices, "d1")

====
